---- MODULE Spec2Model ----
(***************************************************************************)
(* A model of the trajectory sampling and credit-assignment core of RGFN:  *)
(* the few-phase policy dispatch, the sampler's rollout loop, the reward   *)
(* and the conditioned trajectory balance objective.                       *)
(*                                                                         *)
(* Python lists are sequences; Python indices are kept 0-based as in the   *)
(* source and read with At(seq, i).  Floating point tensors hold extended  *)
(* values: a finite integer, -infinity, +infinity or NaN.                  *)
(***************************************************************************)
EXTENDS Integers, Sequences, FiniteSets, TLC

VARIABLES
    batch,          \* the arguments of the policy call under test
    pol_out,        \* what the policy call returned or raised
    trajectories,   \* the sampler's Trajectories object
    pc,             \* position in sample_trajectories_from_sources
    env,            \* the environment of the sampler: [is_reversed]
    sampler_reward, \* SamplerBase.reward: a Reward record, or None
    proxy_calls,    \* the batches the reward backend was called with
    policy_calls,   \* the batches the rollout called the policy with
    obj_in,         \* the trajectory batch handed to the objective
    obj_out,        \* the ObjectiveOutput, or None
    reward_args,    \* the arguments of Reward.__init__
    reward_obj,     \* the constructed Reward, an exception, or None
    reward_out,     \* the states scored and the RewardOutput, or None
    proxy_state,    \* the proxy shared by the callers of the update
    update_used,    \* the update indices the callers have passed so far
    update_call,    \* the last update_using_trajectories call, or None
    cache,          \* a Cache object: [max_size, real_max_size, _cache]
    cache_order,    \* the keys present, oldest entry first
    cache_inserted, \* the keys for which an entry was created, in time order
    cache_removals, \* the number of pop and clear calls so far
    cache_call,     \* the last Cache call, or None
    heap_obj,       \* a ContentHeap object: [max_size, heap, items]
    heap_distinct,  \* [pushes]: the pushes so far, or None once an item was pushed twice
    heap_call       \* the last push: its arguments and the object before it

vars == <<batch, pol_out, trajectories, pc, env, sampler_reward, proxy_calls, policy_calls,
          obj_in, obj_out, reward_args, reward_obj, reward_out,
          proxy_state, update_used, update_call,
          cache, cache_order, cache_inserted, cache_removals, cache_call,
          heap_obj, heap_distinct, heap_call>>

policy_vars == <<batch, pol_out>>
sampler_vars == <<trajectories, pc, env, sampler_reward, proxy_calls, policy_calls>>
objective_vars == <<obj_in, obj_out>>
reward_vars == <<reward_args, reward_obj, reward_out>>
update_vars == <<proxy_state, update_used, update_call>>
cache_vars == <<cache, cache_order, cache_inserted, cache_removals, cache_call>>
heap_vars == <<heap_obj, heap_distinct, heap_call>>

None == [k |-> "None"]

----------------------------------------------------------------------------
(* Bounds of the model.                                                    *)

MaxBatch == 3       \* states in one policy call
MaxActions == 2     \* actions in one action space
MaxTraj == 2        \* trajectories in one batch
MaxDepth == 3       \* depth of the environment's transition graph
MaxUpdateIdx == 2   \* largest update index a caller passes
MaxMinReward == 2   \* largest min_reward a Reward is constructed with
MaxCacheSize == 40  \* largest max_size a Cache is constructed with
MaxCacheRemovals == 1   \* pop and clear calls made on one Cache
MaxCacheReinserts == 1  \* insertions of a key that was removed earlier
MaxHeapSize == 3    \* largest max_size a ContentHeap is constructed with
MaxHeapValue == 2   \* largest value pushed
MaxHeapItems == 4   \* distinct items pushed

----------------------------------------------------------------------------
(* Python and torch helpers.                                               *)

At(seq, i) == seq[i + 1]

Range0(n) == [i \in 1..n |-> i - 1]

Last(seq) == seq[Len(seq)]

Reverse(seq) == [i \in 1..Len(seq) |-> seq[Len(seq) + 1 - i]]

RECURSIVE Concat(_)
Concat(seqs) ==
    IF Len(seqs) = 0 THEN <<>> ELSE Head(seqs) \o Concat(Tail(seqs))

Fin(n) == [k |-> "fin", v |-> n]
NegInf == [k |-> "ninf", v |-> 0]
PosInf == [k |-> "pinf", v |-> 0]
NaN == [k |-> "nan", v |-> 0]

Neg(a) ==
    CASE a.k = "fin" -> Fin(-a.v)
      [] a.k = "ninf" -> PosInf
      [] a.k = "pinf" -> NegInf
      [] OTHER -> NaN

Add(a, b) ==
    CASE a.k = "nan" \/ b.k = "nan" -> NaN
      [] a.k = "fin" /\ b.k = "fin" -> Fin(a.v + b.v)
      [] a.k = "fin" -> b
      [] b.k = "fin" -> a
      [] a.k = b.k -> a
      [] OTHER -> NaN

Sub(a, b) == Add(a, Neg(b))

Pow2(a) ==
    CASE a.k = "fin" -> Fin(a.v * a.v)
      [] a.k = "nan" -> NaN
      [] OTHER -> PosInf

----------------------------------------------------------------------------
(* FewPhasePolicyBase: batched dispatch over action-space types.           *)
(*                                                                         *)
(* An action space is [type, state, n]: its runtime class, the state it    *)
(* was built for and its number of actions.  An action is [state, idx]:    *)
(* the idx-th action of the action space of that state.                    *)

ActionSpaceTypes == {"A", "A1", "B", "X"}

\* The classes an instance of class t is an instance of: A1 subclasses A.
Mro(t) == IF t = "A1" THEN {"A1", "A"} ELSE {t}

isinstance(action_space, action_space_type) ==
    action_space_type \in Mro(action_space.type)

\* The keys of action_space_to_forward_fn, in the dict's iteration order.
action_space_to_forward_fn == <<"B", "A">>

ActionSpace(t, s, n) == [type |-> t, state |-> s, n |-> n]

get_action_at_idx(action_space, idx) == [state |-> action_space.state, idx |-> idx]

get_idx_of_action(action_space, action) == action.idx

\* The score a phase's scoring function gives action c of a state.
LogProbEntry(state, c) == Fin(0 - (state * 10 + c + 1))

MaxOf(S) == CHOOSE m \in S : \A x \in S : x <= m

\* A dense (N, max_num_actions) matrix of one phase, padded with -inf
\* beyond each state's own number of actions.
forward_fn(phase_states, phase_action_spaces) ==
    LET max_num_actions == MaxOf({phase_action_spaces[r].n : r \in 1..Len(phase_action_spaces)})
    IN [r \in 1..Len(phase_states) |->
          [c \in 1..max_num_actions |->
              IF c - 1 < phase_action_spaces[r].n
              THEN LogProbEntry(phase_states[r], c - 1)
              ELSE NegInf]]

\* A partition that would list the indices of a phase last to first.
phase_indices_last_first(action_spaces, action_space_type) ==
    Reverse(SelectSeq(Range0(Len(action_spaces)),
                      LAMBDA idx : isinstance(At(action_spaces, idx), action_space_type)))

phase_indices(action_spaces, action_space_type) ==
    SelectSeq(Range0(Len(action_spaces)),
              LAMBDA idx : isinstance(At(action_spaces, idx), action_space_type))

Gather(seq, indices) == [j \in 1..Len(indices) |-> At(seq, indices[j])]

\* Categorical(probs=exp(log_probs)).sample() draws, for row r, a column of
\* positive probability; draw maps a batch index to the column drawn for it.
_sample_actions_from_log_probs(log_probs, action_spaces, phase_draw) ==
    [r \in 1..Len(action_spaces) |-> get_action_at_idx(action_spaces[r], phase_draw[r])]

\* A sampler that could draw any column of the matrix, padding included.
DrawIsPossible_with_padding(log_probs, phase_draw) ==
    \A r \in 1..Len(log_probs) : phase_draw[r] + 1 \in 1..Len(log_probs[r])

DrawIsPossible(log_probs, phase_draw) ==
    \A r \in 1..Len(log_probs) :
        /\ phase_draw[r] + 1 \in 1..Len(log_probs[r])
        /\ log_probs[r][phase_draw[r] + 1] # NegInf

\* A flattening that would run down the columns.
RowMajor_by_columns(log_probs) ==
    Concat([c \in 1..Len(log_probs[1]) |-> [r \in 1..Len(log_probs) |-> log_probs[r][c]]])

RowMajor(log_probs) == Concat(log_probs)

_select_actions_log_probs(log_probs, action_spaces, actions) ==
    LET action_indices == [r \in 1..Len(actions) |->
                               get_idx_of_action(action_spaces[r], actions[r])]
        max_num_actions == Len(log_probs[1])
        flat_indices == [r \in 1..Len(actions) |->
                               (r - 1) * max_num_actions + action_indices[r]]
    IN Gather(RowMajor(log_probs), flat_indices)

\* The loop over the registered types (lines 49-63): the state after the
\* first k keys, [out, to_state_idx, possible, calls]; possible says
\* whether the draws given are draws the sampler can make, calls lists the
\* arguments each phase's scoring function was called with.
RECURSIVE SamplePhases(_, _, _, _)
SamplePhases(k, states, action_spaces, draw) ==
    IF k = 0 THEN [out |-> <<>>, to_state_idx |-> <<>>, possible |-> TRUE, calls |-> <<>>]
    ELSE LET prev == SamplePhases(k - 1, states, action_spaces, draw)
             indices == phase_indices(action_spaces, action_space_to_forward_fn[k])
             phase_states == Gather(states, indices)
             phase_action_spaces == Gather(action_spaces, indices)
             log_probs == forward_fn(phase_states, phase_action_spaces)
             phase_draw == [r \in 1..Len(indices) |-> draw[indices[r]]]
         IN IF Len(indices) = 0 THEN prev
            ELSE [out |-> prev.out \o _sample_actions_from_log_probs(
                                          log_probs, phase_action_spaces, phase_draw),
                  to_state_idx |-> prev.to_state_idx \o indices,
                  possible |-> prev.possible /\ DrawIsPossible(log_probs, phase_draw),
                  calls |-> Append(prev.calls,
                                   [type |-> action_space_to_forward_fn[k],
                                    states |-> phase_states,
                                    action_spaces |-> phase_action_spaces,
                                    actions |-> <<>>,
                                    sampled |-> _sample_actions_from_log_probs(
                                        log_probs, phase_action_spaces, phase_draw)])]

\* for action_idx, state_idx in enumerate(to_state_idx):
\*     state_to_action_idx[state_idx] = action_idx
RECURSIVE AssignIdx(_, _, _)
AssignIdx(j, to_state_idx, initial) ==
    IF j = 0 THEN initial
    ELSE [AssignIdx(j - 1, to_state_idx, initial) EXCEPT ![to_state_idx[j]] = j - 1]

Ok(value) == [status |-> "ok", value |-> value]
Raised(exception) == [status |-> exception, value |-> <<>>]

sample_actions(states, action_spaces, draw) ==
    LET phases == SamplePhases(Len(action_space_to_forward_fn), states, action_spaces, draw)
        actions == phases.out
        state_to_action_idx ==
            AssignIdx(Len(phases.to_state_idx), phases.to_state_idx,
                      [state_idx \in 0..(Len(states) - 1) |-> 0])
    IN IF \E state_idx \in 0..(Len(states) - 1) :
              state_to_action_idx[state_idx] >= Len(actions)
       THEN Raised("IndexError")
       ELSE Ok([i \in 1..Len(states) |-> At(actions, state_to_action_idx[i - 1])])

RECURSIVE ScorePhases(_, _, _, _)
ScorePhases(k, states, action_spaces, actions) ==
    IF k = 0 THEN [out |-> <<>>, to_state_idx |-> <<>>, n_phases |-> 0, calls |-> <<>>]
    ELSE LET prev == ScorePhases(k - 1, states, action_spaces, actions)
             indices == phase_indices(action_spaces, action_space_to_forward_fn[k])
             phase_states == Gather(states, indices)
             phase_action_spaces == Gather(action_spaces, indices)
             phase_actions == Gather(actions, indices)
             log_probs == forward_fn(phase_states, phase_action_spaces)
         IN IF Len(indices) = 0 THEN prev
            ELSE [out |-> prev.out \o _select_actions_log_probs(
                                          log_probs, phase_action_spaces, phase_actions),
                  to_state_idx |-> prev.to_state_idx \o indices,
                  n_phases |-> prev.n_phases + 1,
                  calls |-> Append(prev.calls,
                                   [type |-> action_space_to_forward_fn[k],
                                    states |-> phase_states,
                                    action_spaces |-> phase_action_spaces,
                                    actions |-> phase_actions,
                                    selected |-> _select_actions_log_probs(
                                        log_probs, phase_action_spaces, phase_actions)])]

\* torch.empty leaves state_to_action_idx uninitialised: empty_tensor is
\* whatever the memory held.  torch.cat raises on an empty list and
\* index_select raises on an index outside the concatenated tensor.
compute_action_log_probs(states, action_spaces, actions, empty_tensor) ==
    LET phases == ScorePhases(Len(action_space_to_forward_fn), states, action_spaces, actions)
        log_probs == phases.out
        state_to_action_idx ==
            AssignIdx(Len(phases.to_state_idx), phases.to_state_idx, empty_tensor)
    IN IF phases.n_phases = 0 THEN Raised("RuntimeError")
       ELSE IF \E state_idx \in 0..(Len(states) - 1) :
                  state_to_action_idx[state_idx] \notin 0..(Len(log_probs) - 1)
       THEN Raised("IndexError")
       ELSE Ok([i \in 1..Len(states) |-> At(log_probs, state_to_action_idx[i - 1])])

----------------------------------------------------------------------------
(* The policy under test: one batch, then one call.                        *)

Batches ==
    UNION {[1..n -> ActionSpaceTypes \X (1..MaxActions)] : n \in 0..MaxBatch}

BatchOf(b) ==
    [states |-> [i \in 1..Len(b) |-> i],
     action_spaces |-> [i \in 1..Len(b) |-> ActionSpace(b[i][1], i, b[i][2])]]

Unregistered(action_spaces) ==
    {i - 1 : i \in {j \in 1..Len(action_spaces) :
                      \A k \in 1..Len(action_space_to_forward_fn) :
                          ~isinstance(action_spaces[j], action_space_to_forward_fn[k])}}

\* What uninitialised memory may hold: an index below, inside or above the
\* concatenated tensor.
GarbageValues == (0 - 1)..MaxBatch

PolicyIdle == batch = None /\ pol_out = None

PolicyInit ==
    /\ \E b \in Batches : batch = BatchOf(b)
    /\ pol_out = None

SampleActions ==
    /\ batch # None /\ pol_out = None
    /\ \E draw \in [0..(Len(batch.states) - 1) -> 0..(MaxActions - 1)] :
          /\ SamplePhases(Len(action_space_to_forward_fn), batch.states,
                          batch.action_spaces, draw).possible
          /\ \A i \in Unregistered(batch.action_spaces) : draw[i] = 0
          /\ pol_out' = [op |-> "sample_actions", actions |-> <<>>,
                         calls |-> SamplePhases(Len(action_space_to_forward_fn), batch.states,
                                                batch.action_spaces, draw).calls,
                         result |-> sample_actions(batch.states, batch.action_spaces, draw)]
    /\ UNCHANGED batch

ComputeActionLogProbs ==
    /\ batch # None /\ pol_out = None
    /\ \E chosen \in [1..Len(batch.states) -> 0..(MaxActions - 1)] :
       \E garbage \in [Unregistered(batch.action_spaces) -> GarbageValues] :
          LET actions == [i \in 1..Len(batch.states) |->
                              get_action_at_idx(batch.action_spaces[i], chosen[i])]
              empty_tensor == [i \in 0..(Len(batch.states) - 1) |->
                                  IF i \in DOMAIN garbage THEN garbage[i] ELSE 0]
          IN /\ \A i \in 1..Len(batch.states) : chosen[i] < batch.action_spaces[i].n
             /\ pol_out' = [op |-> "compute_action_log_probs", actions |-> actions,
                            calls |-> ScorePhases(Len(action_space_to_forward_fn), batch.states,
                                                  batch.action_spaces, actions).calls,
                            result |-> compute_action_log_probs(
                                batch.states, batch.action_spaces, actions, empty_tensor)]
    /\ UNCHANGED batch

----------------------------------------------------------------------------
(* Trajectories: the container the sampler fills and the objective reads.  *)

EmptyTrajectories ==
    [_states_list |-> <<>>,
     _forward_action_spaces_list |-> <<>>,
     _backward_action_spaces_list |-> <<>>,
     _actions_list |-> <<>>,
     _forward_log_probs_flat |-> None,
     _backward_log_probs_flat |-> None,
     _reward_outputs |-> None]

add_source_states(t, source_states) ==
    [t EXCEPT
        !._states_list = [i \in 1..Len(source_states) |-> <<source_states[i]>>],
        !._forward_action_spaces_list = [i \in 1..Len(source_states) |-> <<>>],
        !._backward_action_spaces_list = [i \in 1..Len(source_states) |-> <<>>],
        !._actions_list = [i \in 1..Len(source_states) |-> <<>>]]

get_last_states_flat(t) ==
    [i \in 1..Len(t._states_list) |-> Last(t._states_list[i])]

get_source_states_flat(t) ==
    [i \in 1..Len(t._states_list) |-> Head(t._states_list[i])]

\* The number of True entries among the first i entries of a mask.
RECURSIVE CountTrue(_, _)
CountTrue(mask, i) ==
    IF i = 0 THEN 0 ELSE CountTrue(mask, i - 1) + (IF mask[i] THEN 1 ELSE 0)

\* An append that would forget the backward action spaces.
add_actions_states_no_backward(t, forward_action_spaces, backward_action_spaces, actions, states, not_terminated_mask) ==
    LET Grown(list, new) ==
            [i \in 1..Len(list) |->
                IF not_terminated_mask[i]
                THEN Append(list[i], At(new, CountTrue(not_terminated_mask, i - 1)))
                ELSE list[i]]
    IN [t EXCEPT
           !._states_list = Grown(@, states),
           !._forward_action_spaces_list = Grown(@, forward_action_spaces),
           !._actions_list = Grown(@, actions)]

add_actions_states(t, forward_action_spaces, backward_action_spaces, actions, states, not_terminated_mask) ==
    LET Grown(list, new) ==
            [i \in 1..Len(list) |->
                IF not_terminated_mask[i]
                THEN Append(list[i], At(new, CountTrue(not_terminated_mask, i - 1)))
                ELSE list[i]]
    IN [t EXCEPT
           !._states_list = Grown(@, states),
           !._forward_action_spaces_list = Grown(@, forward_action_spaces),
           !._backward_action_spaces_list = Grown(@, backward_action_spaces),
           !._actions_list = Grown(@, actions)]

reversed(t) ==
    [t EXCEPT
        !._states_list = [i \in 1..Len(@) |-> Reverse(@[i])],
        !._actions_list = [i \in 1..Len(@) |-> Reverse(@[i])],
        !._forward_action_spaces_list =
            [i \in 1..Len(@) |-> Reverse(t._backward_action_spaces_list[i])],
        !._backward_action_spaces_list =
            [i \in 1..Len(@) |-> Reverse(t._forward_action_spaces_list[i])],
        !._forward_log_probs_flat = t._backward_log_probs_flat,
        !._backward_log_probs_flat = t._forward_log_probs_flat]

set_reward_outputs(t, reward_outputs) == [t EXCEPT !._reward_outputs = reward_outputs]

----------------------------------------------------------------------------
(* The environment the sampler drives: states 0..MaxDepth, action idx of   *)
(* a state s leads to s + idx + 1, and MaxDepth is the only terminal state.*)

Min(a, b) == IF a <= b THEN a ELSE b

EnvStates == 0..MaxDepth

get_terminal_mask(states) == [i \in 1..Len(states) |-> states[i] >= MaxDepth]

get_forward_action_spaces(states) ==
    [i \in 1..Len(states) |->
        ActionSpace("A", states[i], Min(MaxActions, MaxDepth - states[i]))]

apply_forward_actions(states, actions) ==
    [i \in 1..Len(states) |-> states[i] + actions[i].idx + 1]

get_backward_action_spaces(states) ==
    [i \in 1..Len(states) |-> ActionSpace("B", states[i], Min(MaxActions, states[i]))]

----------------------------------------------------------------------------
(* Reward: boosting and clamping of proxy values.                          *)
(*                                                                         *)
(* exp and log are kept exact: beside the extended values a tensor entry   *)
(* may be [k |-> "exp", v |-> n], the number e^n for an integer n # 0, or  *)
(* [k |-> "log", v |-> m], the number ln(m) for an integer m >= 2.         *)

ExpOf(n) == IF n = 0 THEN Fin(1) ELSE [k |-> "exp", v |-> n]
LogOf(m) == IF m = 1 THEN Fin(0) ELSE [k |-> "log", v |-> m]

exp(a) ==
    CASE a.k = "fin" -> ExpOf(a.v)
      [] a.k = "log" -> Fin(a.v)
      [] a.k = "ninf" -> Fin(0)
      [] a.k = "pinf" -> PosInf
      [] OTHER -> NaN

log(a) ==
    CASE a.k = "fin" /\ a.v > 0 -> LogOf(a.v)
      [] a.k = "fin" /\ a.v = 0 -> NegInf
      [] a.k = "exp" -> Fin(a.v)
      [] a.k = "pinf" -> PosInf
      [] OTHER -> NaN

\* floor(e^n), capped at floor(e^5): exact in every comparison of n with
\* log(m) for an integer m <= 148.
ExpFloor(n) ==
    CASE n < 0 -> 0
      [] n = 0 -> 1
      [] n = 1 -> 2
      [] n = 2 -> 7
      [] n = 3 -> 20
      [] n = 4 -> 54
      [] OTHER -> 148

\* a < b for an extended value a and a bound b that is an extended value
\* or ln(m): n < ln(m) iff e^n < m iff floor(e^n) < m.
Less(a, b) ==
    CASE a.k = "nan" \/ b.k = "nan" -> FALSE
      [] a.k = "pinf" \/ b.k = "ninf" -> FALSE
      [] a.k = "ninf" \/ b.k = "pinf" -> TRUE
      [] a.k = "fin" /\ b.k = "fin" -> a.v < b.v
      [] a.k = "fin" /\ b.k = "log" -> ExpFloor(a.v) < b.v
      [] OTHER -> FALSE

\* torch.clamp(x, min=m): NaN stays NaN.
clamp(x, min) == IF x.k = "nan" THEN NaN ELSE IF Less(x, min) THEN min ELSE x

\* tensor * beta for a Python number beta.
Scale(a, beta) ==
    CASE a.k = "fin" -> Fin(a.v * beta)
      [] a.k = "nan" \/ beta = 0 -> NaN
      [] beta > 0 -> a
      [] OTHER -> Neg(a)

Proxy(is_non_negative, higher_is_better) ==
    [is_non_negative |-> is_non_negative, higher_is_better |-> higher_is_better]

Proxies == {Proxy(n, h) : n \in BOOLEAN, h \in BOOLEAN}

\* The scoring backend: a proxy that declares itself non-negative scores a
\* state s as s, any other proxy as s - 2.
compute_proxy_output(proxy, states) ==
    [i \in 1..Len(states) |->
        IF proxy.is_non_negative THEN Fin(states[i]) ELSE Fin(states[i] - 2)]

\* A constructor that would accept linear boosting on any proxy.
Reward__init__no_check(proxy, reward_boosting, min_reward, beta) ==
    IF reward_boosting \notin {"linear", "exponential"}
    THEN [k |-> "AssertionError"]
    ELSE [k |-> "Reward",
          proxy |-> proxy,
          reward_boosting |-> reward_boosting,
          min_reward |-> min_reward,
          min_log_reward |-> IF min_reward > 0 THEN log(Fin(min_reward)) ELSE NegInf,
          beta |-> beta]

Reward__init__(proxy, reward_boosting, min_reward, beta) ==
    IF reward_boosting \notin {"linear", "exponential"}
    THEN [k |-> "AssertionError"]
    ELSE IF reward_boosting = "linear" /\ ~proxy.is_non_negative
    THEN [k |-> "ValueError"]
    ELSE [k |-> "Reward",
          proxy |-> proxy,
          reward_boosting |-> reward_boosting,
          min_reward |-> min_reward,
          min_log_reward |-> IF min_reward > 0 THEN log(Fin(min_reward)) ELSE NegInf,
          beta |-> beta]

\* A scoring that would return the sign-flipped value as the proxy field.
compute_reward_output_signed_proxy(self, states) ==
    LET value == compute_proxy_output(self.proxy, states)
        signed_value == [i \in 1..Len(value) |->
                            IF self.proxy.higher_is_better THEN value[i] ELSE Neg(value[i])]
        linear_reward == [i \in 1..Len(value) |->
                            clamp(Scale(signed_value[i], self.beta), Fin(self.min_reward))]
        exponential_log_reward ==
            [i \in 1..Len(value) |->
                clamp(Scale(signed_value[i], self.beta), self.min_log_reward)]
    IN IF self.reward_boosting = "linear"
       THEN [log_reward |-> [i \in 1..Len(value) |-> log(linear_reward[i])],
             reward |-> linear_reward,
             proxy |-> signed_value]
       ELSE [log_reward |-> exponential_log_reward,
             reward |-> [i \in 1..Len(value) |-> exp(exponential_log_reward[i])],
             proxy |-> signed_value]

compute_reward_output(self, states) ==
    LET value == compute_proxy_output(self.proxy, states)
        signed_value == [i \in 1..Len(value) |->
                            IF self.proxy.higher_is_better THEN value[i] ELSE Neg(value[i])]
        linear_reward == [i \in 1..Len(value) |->
                            clamp(Scale(signed_value[i], self.beta), Fin(self.min_reward))]
        exponential_log_reward ==
            [i \in 1..Len(value) |->
                clamp(Scale(signed_value[i], self.beta), self.min_log_reward)]
    IN IF self.reward_boosting = "linear"
       THEN [log_reward |-> [i \in 1..Len(value) |-> log(linear_reward[i])],
             reward |-> linear_reward,
             proxy |-> value]
       ELSE [log_reward |-> exponential_log_reward,
             reward |-> [i \in 1..Len(value) |-> exp(exponential_log_reward[i])],
             proxy |-> value]

----------------------------------------------------------------------------
(* SamplerBase.sample_trajectories_from_sources.                           *)

all(mask) == \A i \in 1..Len(mask) : mask[i]

any(mask) == \E i \in 1..Len(mask) : mask[i]

\* A selection that would hand back the selected entries last to first.
compress_reversed(data, selectors) ==
    Reverse(Gather(data, SelectSeq(Range0(Len(data)), LAMBDA idx : At(selectors, idx))))

compress(data, selectors) ==
    Gather(data, SelectSeq(Range0(Len(data)), LAMBDA idx : At(selectors, idx)))

SourceBatches == UNION {[1..n -> EnvStates] : n \in 0..MaxTraj}

\* The rewards a sampler is configured with: none, the exponential reward
\* of the tests, a linear reward.
SamplerRewards ==
    {None,
     Reward__init__(Proxy(TRUE, TRUE), "exponential", 0, 1),
     Reward__init__(Proxy(TRUE, TRUE), "linear", 1, 1)}

SamplerIdle ==
    /\ trajectories = EmptyTrajectories
    /\ pc = "idle"
    /\ env = None
    /\ sampler_reward = None
    /\ proxy_calls = <<>>
    /\ policy_calls = <<>>

\* A loop that would break as soon as one frontier state is terminal.
LoopExit_any(terminal_mask) == any(terminal_mask)

\* while True: ... if all(terminal_mask): break
LoopExit(terminal_mask) == all(terminal_mask)

\* Lines 95-96.
Start ==
    /\ pc = "start"
    /\ \E source_states \in SourceBatches :
          trajectories' = add_source_states(EmptyTrajectories, source_states)
    /\ pc' = "loop"
    /\ UNCHANGED <<env, sampler_reward, proxy_calls, policy_calls>>

\* Lines 98-116: one pass of the loop body that does not break.  Each local
\* of the body is bound once, in the order of the source's assignments.
Iterate ==
    /\ pc = "loop"
    /\ \E current_states \in {get_last_states_flat(trajectories)} :
       \E terminal_mask \in {get_terminal_mask(current_states)} :
          /\ ~LoopExit(terminal_mask)
          /\ \E non_terminal_mask \in {[i \in 1..Len(terminal_mask) |-> ~terminal_mask[i]]} :
             \E non_terminal_states \in {compress(current_states, non_terminal_mask)} :
             \E forward_action_spaces \in {get_forward_action_spaces(non_terminal_states)} :
             \E draw \in [0..(Len(non_terminal_states) - 1) -> 0..(MaxActions - 1)] :
                /\ SamplePhases(Len(action_space_to_forward_fn), non_terminal_states,
                                forward_action_spaces, draw).possible
                /\ policy_calls' = Append(policy_calls,
                                          [states |-> non_terminal_states,
                                           action_spaces |-> forward_action_spaces])
                /\ \E sampled \in {sample_actions(non_terminal_states,
                                                  forward_action_spaces, draw)} :
                      IF sampled.status = "ok"
                      THEN \E new_actions \in {sampled.value} :
                           \E new_states \in {apply_forward_actions(non_terminal_states,
                                                                    new_actions)} :
                           \E backward_action_spaces \in
                                  {get_backward_action_spaces(new_states)} :
                              /\ trajectories' = add_actions_states(
                                     trajectories, forward_action_spaces,
                                     backward_action_spaces, new_actions, new_states,
                                     non_terminal_mask)
                              /\ pc' = "loop"
                      ELSE /\ pc' = "raised"
                           /\ UNCHANGED trajectories
    /\ UNCHANGED <<env, sampler_reward, proxy_calls>>

\* A pass that would call the policy with the empty batch before it breaks.
BreakLoop_after_empty_call ==
    /\ pc = "loop"
    /\ LoopExit(get_terminal_mask(get_last_states_flat(trajectories)))
    /\ pc' = "after_loop"
    /\ policy_calls' = Append(policy_calls, [states |-> <<>>, action_spaces |-> <<>>])
    /\ UNCHANGED <<trajectories, env, sampler_reward, proxy_calls>>

\* Lines 98-101: the pass of the loop that breaks.
BreakLoop ==
    /\ pc = "loop"
    /\ LoopExit(get_terminal_mask(get_last_states_flat(trajectories)))
    /\ pc' = "after_loop"
    /\ UNCHANGED <<trajectories, env, sampler_reward, proxy_calls, policy_calls>>

\* A return path that would score the reward before reversing.
Finish_reward_first ==
    /\ pc = "after_loop"
    /\ IF sampler_reward # None
       THEN LET states == get_last_states_flat(trajectories)
                scored == set_reward_outputs(
                              trajectories, compute_reward_output(sampler_reward, states))
            IN /\ proxy_calls' = Append(proxy_calls, states)
               /\ trajectories' = IF env.is_reversed THEN reversed(scored) ELSE scored
       ELSE /\ trajectories' =
                  IF env.is_reversed THEN reversed(trajectories) ELSE trajectories
            /\ UNCHANGED proxy_calls
    /\ pc' = "done"
    /\ UNCHANGED <<env, sampler_reward, policy_calls>>

\* Lines 117-122: reversal, reward, return.
Finish ==
    /\ pc = "after_loop"
    /\ LET oriented == IF env.is_reversed THEN reversed(trajectories) ELSE trajectories
       IN IF sampler_reward # None
          THEN LET states == get_last_states_flat(oriented)
               IN /\ proxy_calls' = Append(proxy_calls, states)
                  /\ trajectories' = set_reward_outputs(
                         oriented, compute_reward_output(sampler_reward, states))
          ELSE /\ trajectories' = oriented
               /\ UNCHANGED proxy_calls
    /\ pc' = "done"
    /\ UNCHANGED <<env, sampler_reward, policy_calls>>

----------------------------------------------------------------------------
(* Reward under test: construction, then scoring.                          *)

RewardBoostings == {"linear", "exponential", "quadratic"}

Betas == {1, 2}

RewardIdle == reward_args = None /\ reward_obj = None /\ reward_out = None

\* The constructor takes any number as min_reward, a negative one too.
RewardInit ==
    /\ \E proxy \in Proxies, reward_boosting \in RewardBoostings,
          min_reward \in (0 - 1)..MaxMinReward, beta \in Betas :
          reward_args = [proxy |-> proxy, reward_boosting |-> reward_boosting,
                         min_reward |-> min_reward, beta |-> beta]
    /\ reward_obj = None
    /\ reward_out = None

Construct ==
    /\ reward_args # None /\ reward_obj = None
    /\ reward_obj' = Reward__init__(reward_args.proxy, reward_args.reward_boosting,
                                    reward_args.min_reward, reward_args.beta)
    /\ UNCHANGED <<reward_args, reward_out>>

ComputeRewardOutput ==
    /\ reward_obj.k = "Reward" /\ reward_out = None
    /\ \E states \in SourceBatches :
          reward_out' = [states |-> states,
                         output |-> compute_reward_output(reward_obj, states)]
    /\ UNCHANGED <<reward_args, reward_obj>>

----------------------------------------------------------------------------
(* The flat views of Trajectories and helpers.to_indices.                  *)

get_actions_flat(t) == Concat(t._actions_list)

get_non_last_states_flat(t) ==
    Concat([i \in 1..Len(t._states_list) |->
               SubSeq(t._states_list[i], 1, Len(t._states_list[i]) - 1)])

get_non_source_states_flat(t) ==
    Concat([i \in 1..Len(t._states_list) |-> Tail(t._states_list[i])])

get_forward_action_spaces_flat(t) == Concat(t._forward_action_spaces_list)

get_backward_action_spaces_flat(t) == Concat(t._backward_action_spaces_list)

Repeat(x, n) == [j \in 1..n |-> x]

\* An index that would count the trajectories from 1.
to_indices_shifted(counts) ==
    Concat([i \in 1..Len(counts) |-> Repeat(i, counts[i])])

\* torch.repeat_interleave(torch.arange(len(counts)), counts)
to_indices(counts) ==
    Concat([i \in 1..Len(counts) |-> Repeat(i - 1, counts[i])])

\* An index that would give every action to trajectory 0.
get_index_flat_zero(t) == [a \in 1..Len(Concat(t._actions_list)) |-> 0]

get_index_flat(t) ==
    to_indices([i \in 1..Len(t._actions_list) |-> Len(t._actions_list[i])])

----------------------------------------------------------------------------
(* The policies the objective scores with: deterministic functions of the  *)
(* state and the action.  A masked policy gives action 0 probability zero. *)

Policy(kind, scale) == [kind |-> kind, scale |-> scale]

policy_compute_action_log_probs(policy, states, action_spaces, actions) ==
    [a \in 1..Len(actions) |->
        IF policy.kind = "masked" /\ actions[a].idx = 0
        THEN NegInf
        ELSE Fin(0 - (policy.scale * states[a] + actions[a].idx + 1))]

compute_states_log_flow(policy, states) ==
    [i \in 1..Len(states) |-> Fin(states[i] + 1)]

----------------------------------------------------------------------------
(* ObjectiveBase.assign_log_probs and                                      *)
(* ConditionedTrajectoryBalanceObjective.compute_objective_output.         *)

\* A scoring that would score backward against the state left, not the
\* state reached.
assign_log_probs_backward_on_source_side(self, t) ==
    LET actions == get_actions_flat(t)
        forward_states == get_non_last_states_flat(t)
        forward_action_spaces == get_forward_action_spaces_flat(t)
        forward_log_prob == policy_compute_action_log_probs(
            self.forward_policy, forward_states, forward_action_spaces, actions)
        backward_states == get_non_last_states_flat(t)
        backward_action_spaces == get_backward_action_spaces_flat(t)
        backward_log_prob == policy_compute_action_log_probs(
            self.backward_policy, backward_states, backward_action_spaces, actions)
    IN [t EXCEPT !._forward_log_probs_flat = [k |-> "tensor", v |-> forward_log_prob],
                 !._backward_log_probs_flat = [k |-> "tensor", v |-> backward_log_prob]]

assign_log_probs(self, t) ==
    LET actions == get_actions_flat(t)
        forward_states == get_non_last_states_flat(t)
        forward_action_spaces == get_forward_action_spaces_flat(t)
        forward_log_prob == policy_compute_action_log_probs(
            self.forward_policy, forward_states, forward_action_spaces, actions)
        backward_states == get_non_source_states_flat(t)
        backward_action_spaces == get_backward_action_spaces_flat(t)
        backward_log_prob == policy_compute_action_log_probs(
            self.backward_policy, backward_states, backward_action_spaces, actions)
    IN [t EXCEPT !._forward_log_probs_flat = [k |-> "tensor", v |-> forward_log_prob],
                 !._backward_log_probs_flat = [k |-> "tensor", v |-> backward_log_prob]]

Minus(x, y) == [i \in 1..Len(x) |-> Sub(x[i], y[i])]

\* torch.scatter_add(input, index, src, dim=0): for every position a of
\* src, out[index[a]] += src[a]; scatter_add_upto(a, ...) is the tensor
\* after the first a positions.
RECURSIVE scatter_add_upto(_, _, _, _)
scatter_add_upto(a, input, index, src) ==
    IF a = 0 THEN input
    ELSE LET out == scatter_add_upto(a - 1, input, index, src)
         IN [out EXCEPT ![index[a] + 1] = Add(@, src[a])]

\* A scatter that would keep only the last term written to a slot.
scatter_overwrite(input, index, src) ==
    [i \in 1..Len(input) |->
        IF \E a \in 1..Len(src) : index[a] + 1 = i
        THEN src[CHOOSE a \in 1..Len(src) :
                    /\ index[a] + 1 = i
                    /\ \A b \in 1..Len(src) : index[b] + 1 = i => b <= a]
        ELSE input[i]]

scatter_add(input, index, src) == scatter_add_upto(Len(src), input, index, src)

RECURSIVE SumSeq(_)
SumSeq(x) == IF Len(x) = 0 THEN Fin(0) ELSE Add(Head(x), SumSeq(Tail(x)))

\* A mean that would skip the entries that are not finite.
mean_of_finite(x) ==
    [sum |-> SumSeq(SelectSeq(x, LAMBDA e : e.k = "fin")), count |-> Len(x)]

\* tensor.mean(): the quotient sum / count, kept as the pair.
mean(x) == [sum |-> IF Len(x) = 0 THEN NaN ELSE SumSeq(x), count |-> Len(x)]

Abs(a) == IF a.k = "fin" /\ a.v < 0 THEN Fin(0 - a.v)
          ELSE IF a.k = "ninf" THEN PosInf ELSE a

\* Residuals that would leave the log-reward out.
trajectory_residuals_no_reward(self, t) ==
    LET source_states == get_source_states_flat(t)
        source_log_flow == compute_states_log_flow(self.forward_policy, source_states)
    IN scatter_add(source_log_flow, get_index_flat(t),
                   Minus(t._forward_log_probs_flat.v, t._backward_log_probs_flat.v))

\* Lines 16-28: the per-trajectory residuals, the tensor named loss before
\* it is squared.
trajectory_residuals(self, t) ==
    LET source_states == get_source_states_flat(t)
        source_log_flow == compute_states_log_flow(self.forward_policy, source_states)
        forward_log_prob == t._forward_log_probs_flat.v
        backward_log_prob == t._backward_log_probs_flat.v
        log_reward == t._reward_outputs.log_reward
        index == get_index_flat(t)
    IN scatter_add(Minus(source_log_flow, log_reward), index,
                   Minus(forward_log_prob, backward_log_prob))

compute_objective_output(self, trajectories_in) ==
    LET t == assign_log_probs(self, trajectories_in)
        source_log_flow ==
            compute_states_log_flow(self.forward_policy, get_source_states_flat(t))
        loss == trajectory_residuals(self, t)
    IN [trajectories |-> t,
        output |-> [loss |-> mean([i \in 1..Len(loss) |-> Pow2(loss[i])]),
                    metrics |-> [mean_log_flow |-> mean(source_log_flow),
                                 abs_mean_log_flow |->
                                     mean([i \in 1..Len(source_log_flow) |->
                                              Abs(source_log_flow[i])])]]]

----------------------------------------------------------------------------
(* The objective under test: a batch the sampler can return, scored by the *)
(* exponential reward of the tests (log_reward is the proxy value), then   *)
(* one call of compute_objective_output.                                   *)

\* The action indices that lead from state s to the terminal state.
RECURSIVE PathsFrom(_)
PathsFrom(s) ==
    IF s >= MaxDepth THEN {<<>>}
    ELSE UNION {{<<c>> \o rest : rest \in PathsFrom(s + c + 1)} :
                   c \in 0..(Min(MaxActions, MaxDepth - s) - 1)}

RECURSIVE StatesAlong(_, _)
StatesAlong(s, path) ==
    IF Len(path) = 0 THEN <<s>>
    ELSE <<s>> \o StatesAlong(s + Head(path) + 1, Tail(path))

\* The trajectories sampled from the initial state 0, and the one sampled
\* from a source that is already terminal.
TrajectoryShapes ==
    {[source |-> 0, path |-> path] : path \in PathsFrom(0)}
        \cup {[source |-> MaxDepth, path |-> <<>>]}

TrajectoriesOf(shapes, log_reward) ==
    LET states(i) == StatesAlong(shapes[i].source, shapes[i].path)
        steps(i) == 1..Len(shapes[i].path)
    IN [_states_list |-> [i \in 1..Len(shapes) |-> states(i)],
        _forward_action_spaces_list |->
            [i \in 1..Len(shapes) |->
                [j \in steps(i) |-> get_forward_action_spaces(<<states(i)[j]>>)[1]]],
        _backward_action_spaces_list |->
            [i \in 1..Len(shapes) |->
                [j \in steps(i) |-> get_backward_action_spaces(<<states(i)[j + 1]>>)[1]]],
        _actions_list |->
            [i \in 1..Len(shapes) |->
                [j \in steps(i) |->
                    get_action_at_idx(get_forward_action_spaces(<<states(i)[j]>>)[1],
                                      shapes[i].path[j])]],
        _forward_log_probs_flat |-> None,
        _backward_log_probs_flat |-> None,
        _reward_outputs |-> [log_reward |-> log_reward,
                             reward |-> [i \in 1..Len(shapes) |-> exp(log_reward[i])],
                             proxy |-> log_reward]]

ForwardPolicies == {Policy("dense", 2), Policy("masked", 2)}

BackwardPolicy == Policy("dense", 1)

\* The log-reward at which a trajectory is balanced under the two
\* policies: source log-flow plus the sum of forward minus backward.
BalancedLogReward(forward_policy, shape) ==
    LET states == StatesAlong(shape.source, shape.path)
        Term(j) ==
            LET action == [state |-> states[j], idx |-> shape.path[j]]
            IN Sub(policy_compute_action_log_probs(
                       forward_policy, <<states[j]>>, <<>>, <<action>>)[1],
                   policy_compute_action_log_probs(
                       BackwardPolicy, <<states[j + 1]>>, <<>>, <<action>>)[1])
    IN Add(compute_states_log_flow(forward_policy, <<shape.source>>)[1],
           SumSeq([j \in 1..Len(shape.path) |-> Term(j)]))

LogRewardChoices(balanced) ==
    {NegInf, balanced} \cup (IF balanced.k = "fin" THEN {Fin(balanced.v + 1)} ELSE {})

ObjectiveIdle == obj_in = None /\ obj_out = None

ObjectiveInit ==
    /\ \E n \in 1..MaxTraj :
       \E shapes \in [1..n -> TrajectoryShapes], forward_policy \in ForwardPolicies :
       \E log_reward \in
             [1..n -> UNION {LogRewardChoices(BalancedLogReward(forward_policy, shapes[i])) :
                                i \in 1..n}] :
          /\ \A i \in 1..n :
                log_reward[i] \in
                    LogRewardChoices(BalancedLogReward(forward_policy, shapes[i]))
          /\ obj_in = [self |-> [forward_policy |-> forward_policy,
                                 backward_policy |-> BackwardPolicy],
                       trajectories |-> TrajectoriesOf(shapes, log_reward),
                       given |-> TrajectoriesOf(shapes, log_reward)]
    /\ obj_out = None

\* A call that would hand the batch back without its reward output.
ComputeObjectiveOutput_dropping_reward ==
    /\ obj_in # None /\ obj_out = None
    /\ LET returned == compute_objective_output(obj_in.self, obj_in.trajectories)
       IN /\ obj_in' = [obj_in EXCEPT
                           !.trajectories = set_reward_outputs(returned.trajectories, None)]
          /\ obj_out' = returned.output

\* The call works on the caller's Trajectories object in place: given keeps
\* the batch as it was handed in.
ComputeObjectiveOutput ==
    /\ obj_in # None /\ obj_out = None
    /\ LET returned == compute_objective_output(obj_in.self, obj_in.trajectories)
       IN /\ obj_in' = [obj_in EXCEPT !.trajectories = returned.trajectories]
          /\ obj_out' = returned.output

----------------------------------------------------------------------------
(* Reward.update_using_trajectories over a proxy that several callers      *)
(* share.                                                                  *)

\* The proxy's own state: the update indices it has seen and the batches
\* it has learned from, in order.
FreshProxy == [seen |-> {}, data |-> <<>>]

\* ProxyBase.update_using_trajectories: a no-op on an index already seen.
Proxy_update_using_trajectories(proxy, trajectories_in, update_idx) ==
    IF update_idx \in proxy.seen
    THEN [proxy |-> proxy, metrics |-> <<>>]
    ELSE [proxy |-> [seen |-> proxy.seen \cup {update_idx},
                     data |-> Append(proxy.data, trajectories_in)],
          metrics |-> <<trajectories_in>>]

\* A Reward that would number the updates itself.
Reward_update_using_trajectories_own_idx(proxy, trajectories_in, update_idx) ==
    Proxy_update_using_trajectories(proxy, trajectories_in, MaxUpdateIdx + 1 + Len(proxy.data))

\* Line 103: return self.proxy.update_using_trajectories(trajectories, update_idx)
Reward_update_using_trajectories(proxy, trajectories_in, update_idx) ==
    Proxy_update_using_trajectories(proxy, trajectories_in, update_idx)

\* The objects that hold a Reward over the shared proxy.
UpdateCallers == {"sampler", "replay_buffer"}

\* The trajectory batches passed to the update, by name.
UpdateBatches == {"batch_a", "batch_b"}

UpdateIdle == proxy_state = None /\ update_used = {} /\ update_call = None

UpdateInit == proxy_state = FreshProxy /\ update_used = {} /\ update_call = None

UpdateUsingTrajectories ==
    /\ proxy_state # None
    /\ \E caller \in UpdateCallers, update_idx \in 0..MaxUpdateIdx,
          trajectories_in \in UpdateBatches :
          LET returned == Reward_update_using_trajectories(
                              proxy_state, trajectories_in, update_idx)
          IN /\ proxy_state' = returned.proxy
             /\ update_used' = update_used \cup {update_idx}
             /\ update_call' = [caller |-> caller,
                                update_idx |-> update_idx,
                                trajectories |-> trajectories_in,
                                already_used |-> update_idx \in update_used,
                                proxy_before |-> proxy_state,
                                metrics |-> returned.metrics]

----------------------------------------------------------------------------
(* Cache: a dict with a bound on its size.                                 *)

\* A dict is the sequence of its [key, value] items in iteration order,
\* which in Python is the order in which the present keys were added.
dict_keys(d) == [i \in 1..Len(d) |-> d[i].key]

dict_contains(d, key) == \E i \in 1..Len(d) : d[i].key = key

dict_get(d, key, default) ==
    IF dict_contains(d, key)
    THEN d[CHOOSE i \in 1..Len(d) : d[i].key = key].value
    ELSE default

\* d[key] = value: an existing key keeps its place, a new key goes last.
dict_setitem(d, key, value) ==
    IF dict_contains(d, key)
    THEN [i \in 1..Len(d) |-> IF d[i].key = key THEN [key |-> key, value |-> value] ELSE d[i]]
    ELSE Append(d, [key |-> key, value |-> value])

dict_pop(d, key) == SelectSeq(d, LAMBDA item : item.key # key)

\* max_size is None or Fin(m); int(1.05 * m) is the floor of 105 m / 100.
Cache__init__(max_size) ==
    [_cache |-> <<>>,
     max_size |-> max_size,
     real_max_size |-> IF max_size = None THEN PosInf ELSE Fin((105 * max_size.v) \div 100)]

\* A read that would move the key it finds to the end of the dict.
Cache__getitem__refreshing(self, key) ==
    [self |-> IF dict_contains(self._cache, key)
              THEN [self EXCEPT !._cache = Append(dict_pop(self._cache, key), [key |-> key, value |-> dict_get(self._cache, key, None)])]
              ELSE self,
     result |-> dict_get(self._cache, key, None)]

Cache__getitem__(self, key) ==
    [self |-> self, result |-> dict_get(self._cache, key, None)]

Cache__contains__(self, item) ==
    [self |-> self, result |-> dict_contains(self._cache, item)]

RECURSIVE pop_keys(_, _)
pop_keys(d, keys_to_remove) ==
    IF Len(keys_to_remove) = 0 THEN d
    ELSE pop_keys(dict_pop(d, Head(keys_to_remove)), Tail(keys_to_remove))

\* An eviction that would leave one entry more than max_size.
Cache_limit_the_size_keeping_one_more(self, d) ==
    IF self.max_size = None \/ Len(d) <= self.max_size.v THEN d
    ELSE pop_keys(d, SubSeq(dict_keys(d), 1, Len(d) - self.max_size.v - 1))

Cache_limit_the_size(self, d) ==
    IF self.max_size = None \/ Len(d) <= self.max_size.v THEN d
    ELSE LET cache_oversize == Len(d) - self.max_size.v
             keys_to_remove == SubSeq(dict_keys(d), 1, cache_oversize)
         IN pop_keys(d, keys_to_remove)

Cache__setitem__(self, key, value) ==
    LET stored == dict_setitem(self._cache, key, value)
    IN IF self.real_max_size.k = "fin" /\ Len(stored) >= self.real_max_size.v
       THEN [self EXCEPT !._cache = Cache_limit_the_size(self, stored)]
       ELSE [self EXCEPT !._cache = stored]

Cache_clear(self) == [self EXCEPT !._cache = <<>>]

Cache_pop(self, key) == [self EXCEPT !._cache = dict_pop(self._cache, key)]

Cache__len__(self) == Len(self._cache)

\* The max_size values the bounded caches are constructed with.
CacheMaxSizes == {Fin(0), Fin(1), Fin(MaxCacheSize)}

CacheKeys == 0..(MaxCacheSize + 2)

\* The cached value of a key: the cache memoizes a function of the key.
ValueOf(key) == key % 3

SeqToSet(seq) == {seq[i] : i \in 1..Len(seq)}

\* The least key of S, if there is one.
Least(S) == IF S = {} THEN {} ELSE {CHOOSE m \in S : \A x \in S : m <= x}

PresentKeys == SeqToSet(dict_keys(cache._cache))

\* The keys stored: the oldest and the newest key of the dict, the least
\* key removed earlier and the least key never inserted.
EndKeys ==
    IF Len(cache._cache) = 0 THEN {}
    ELSE {cache._cache[1].key, cache._cache[Len(cache._cache)].key}

RemovedKeys == SeqToSet(cache_inserted) \ PresentKeys

NewKeys == CacheKeys \ SeqToSet(cache_inserted)

\* The insertions so far of a key that had been in the cache before.
Reinserts == Len(cache_inserted) - Cardinality(SeqToSet(cache_inserted))

SetItemKeys ==
    EndKeys \cup Least(NewKeys)
            \cup (IF Reinserts < MaxCacheReinserts THEN Least(RemovedKeys) ELSE {})

\* The keys read and popped: the oldest key of the dict and an absent key.
ReadKeys ==
    (IF Len(cache._cache) = 0 THEN {} ELSE {cache._cache[1].key})
        \cup Least(CacheKeys \ PresentKeys)

CacheIdle ==
    /\ cache = None /\ cache_order = <<>> /\ cache_inserted = <<>>
    /\ cache_removals = 0 /\ cache_call = None

CacheInit ==
    /\ cache \in {Cache__init__(max_size) : max_size \in CacheMaxSizes}
    /\ cache_order = <<>> /\ cache_inserted = <<>>
    /\ cache_removals = 0 /\ cache_call = None

\* The record of one call: the dict's keys and the keys present by age
\* before it, the keys it removed and what it returned.
CacheCall(op, key, self_after, present, result) ==
    [op |-> op, key |-> key,
     keys_before |-> dict_keys(cache._cache),
     present |-> present,
     removed |-> SeqToSet(present) \ SeqToSet(dict_keys(self_after._cache)),
     result |-> result]

\* The keys still in the dict, oldest entry first.
StillPresent(present, self_after) ==
    SelectSeq(present, LAMBDA k : dict_contains(self_after._cache, k))

SetItem ==
    /\ cache # None
    /\ \E key \in SetItemKeys : \E value \in {ValueOf(key)} :
         \E self_after \in {Cache__setitem__(cache, key, value)} :
           \E present \in {IF key \in SeqToSet(cache_order) THEN cache_order ELSE Append(cache_order, key)} :
             /\ cache' = self_after
             /\ cache_order' = StillPresent(present, self_after)
             /\ cache_inserted' = IF key \in SeqToSet(cache_order) THEN cache_inserted ELSE Append(cache_inserted, key)
             /\ cache_call' = CacheCall("__setitem__", key, self_after, present, None)
             /\ UNCHANGED cache_removals

GetItem ==
    /\ cache # None
    /\ \E key \in ReadKeys :
         \E returned \in {Cache__getitem__(cache, key)} :
             /\ cache' = returned.self
             /\ cache_order' = StillPresent(cache_order, returned.self)
             /\ cache_call' = CacheCall("__getitem__", key, returned.self, cache_order, returned.result)
             /\ UNCHANGED <<cache_inserted, cache_removals>>

Contains ==
    /\ cache # None
    /\ \E key \in ReadKeys :
         \E returned \in {Cache__contains__(cache, key)} :
             /\ cache' = returned.self
             /\ cache_order' = StillPresent(cache_order, returned.self)
             /\ cache_call' = CacheCall("__contains__", key, returned.self, cache_order, returned.result)
             /\ UNCHANGED <<cache_inserted, cache_removals>>

Pop ==
    /\ cache # None
    /\ cache_removals < MaxCacheRemovals
    /\ \E key \in ReadKeys :
         \E self_after \in {Cache_pop(cache, key)} :
             /\ cache' = self_after
             /\ cache_order' = StillPresent(cache_order, self_after)
             /\ cache_removals' = cache_removals + 1
             /\ cache_call' = CacheCall("pop", key, self_after, cache_order, None)
             /\ UNCHANGED cache_inserted

Clear ==
    /\ cache # None
    /\ cache_removals < MaxCacheRemovals
    /\ \E self_after \in {Cache_clear(cache)} :
         /\ cache' = self_after
         /\ cache_order' = StillPresent(cache_order, self_after)
         /\ cache_removals' = cache_removals + 1
         /\ cache_call' = CacheCall("clear", None, self_after, cache_order, None)
         /\ UNCHANGED cache_inserted

----------------------------------------------------------------------------
(* ContentHeap: a min-heap of bounded size over (value, item) pairs, with  *)
(* the set of the items it holds.  The heap is the list heapq keeps.       *)

ComparableTuple(value, item) == [value |-> value, item |-> item]

\* heapq._siftdown: move newitem from pos towards startpos past every
\* parent it is less than.
RECURSIVE _siftdown(_, _, _, _)
_siftdown(heap, startpos, pos, newitem) ==
    IF pos > startpos /\ newitem.value < At(heap, (pos - 1) \div 2).value
    THEN _siftdown([heap EXCEPT ![pos + 1] = At(heap, (pos - 1) \div 2)],
                   startpos, (pos - 1) \div 2, newitem)
    ELSE [heap EXCEPT ![pos + 1] = newitem]

\* heapq._siftup: bubble the smaller child up until a leaf is hit, then
\* sift newitem down from there.
RECURSIVE _siftup(_, _, _, _)
_siftup(heap, startpos, pos, newitem) ==
    IF 2 * pos + 1 < Len(heap)
    THEN LET leftpos == 2 * pos + 1
             rightpos == leftpos + 1
             childpos == IF rightpos < Len(heap)
                            /\ ~(At(heap, leftpos).value < At(heap, rightpos).value)
                         THEN rightpos ELSE leftpos
         IN _siftup([heap EXCEPT ![pos + 1] = At(heap, childpos)], startpos, childpos, newitem)
    ELSE _siftdown([heap EXCEPT ![pos + 1] = newitem], startpos, pos, newitem)

heappush(heap, item) == _siftdown(Append(heap, item), 0, Len(heap), item)

\* heapq.heappushpop: [heap, returned].
heappushpop(heap, item) ==
    IF Len(heap) > 0 /\ heap[1].value < item.value
    THEN [heap |-> _siftup([heap EXCEPT ![1] = item], 0, 0, item), returned |-> heap[1]]
    ELSE [heap |-> heap, returned |-> item]

ContentHeap__init__(max_size) == [max_size |-> max_size, heap |-> <<>>, items |-> {}]

\* A push that would store an item again that the heap already holds.
ContentHeap_push_unguarded(self, value, item) ==
    IF Len(self.heap) < self.max_size
    THEN [self EXCEPT !.items = @ \cup {item},
                      !.heap = heappush(@, ComparableTuple(value, item))]
    ELSE LET t == heappushpop(self.heap, ComparableTuple(value, item))
         IN [self EXCEPT !.items = (@ \cup {item}) \ {t.returned.item}, !.heap = t.heap]

\* A push that would let the new entry take the root's place in a full heap
\* whatever the two values are.
ContentHeap_push_always_replacing(self, value, item) ==
    IF item \in self.items THEN self
    ELSE IF Len(self.heap) < self.max_size
    THEN [self EXCEPT !.items = @ \cup {item},
                      !.heap = heappush(@, ComparableTuple(value, item))]
    ELSE IF Len(self.heap) = 0 THEN self
    ELSE [self EXCEPT !.items = (@ \cup {item}) \ {self.heap[1].item},
                      !.heap = _siftup([@ EXCEPT ![1] = ComparableTuple(value, item)], 0, 0,
                                       ComparableTuple(value, item))]

ContentHeap_push(self, value, item) ==
    IF item \in self.items THEN self
    ELSE IF Len(self.heap) < self.max_size
    THEN [self EXCEPT !.items = @ \cup {item},
                      !.heap = heappush(@, ComparableTuple(value, item))]
    ELSE LET t == heappushpop(self.heap, ComparableTuple(value, item))
         IN [self EXCEPT !.items = (@ \cup {item}) \ {t.returned.item}, !.heap = t.heap]

HeapIdle == heap_obj = None /\ heap_distinct = None /\ heap_call = None

HeapInit ==
    /\ heap_obj \in {ContentHeap__init__(max_size) : max_size \in 0..MaxHeapSize}
    /\ heap_distinct = [pushes |-> {}]
    /\ heap_call = None

Push ==
    /\ heap_obj # None
    /\ \E value \in 0..MaxHeapValue, item \in 1..MaxHeapItems :
          /\ heap_obj' = ContentHeap_push(heap_obj, value, item)
          /\ heap_distinct' =
                 IF heap_distinct = None
                    \/ \E t \in heap_distinct.pushes : t.item = item
                 THEN None
                 ELSE [pushes |-> heap_distinct.pushes \cup {ComparableTuple(value, item)}]
          /\ heap_call' = [value |-> value, item |-> item, before |-> heap_obj]

----------------------------------------------------------------------------
(* Specifications, one per component under test.                           *)

SamplerInit ==
    /\ trajectories = EmptyTrajectories
    /\ pc = "start"
    /\ env \in {[is_reversed |-> r] : r \in BOOLEAN}
    /\ sampler_reward \in SamplerRewards
    /\ proxy_calls = <<>>
    /\ policy_calls = <<>>

PolicyNext ==
    \/ SampleActions /\ UNCHANGED <<sampler_vars, objective_vars, reward_vars, update_vars, cache_vars, heap_vars>>
    \/ ComputeActionLogProbs /\ UNCHANGED <<sampler_vars, objective_vars, reward_vars, update_vars, cache_vars, heap_vars>>

SamplerNext ==
    \/ Start /\ UNCHANGED <<policy_vars, objective_vars, reward_vars, update_vars, cache_vars, heap_vars>>
    \/ Iterate /\ UNCHANGED <<policy_vars, objective_vars, reward_vars, update_vars, cache_vars, heap_vars>>
    \/ BreakLoop /\ UNCHANGED <<policy_vars, objective_vars, reward_vars, update_vars, cache_vars, heap_vars>>
    \/ Finish /\ UNCHANGED <<policy_vars, objective_vars, reward_vars, update_vars, cache_vars, heap_vars>>

ObjectiveNext ==
    ComputeObjectiveOutput /\ UNCHANGED <<policy_vars, sampler_vars, reward_vars, update_vars, cache_vars, heap_vars>>

UpdateNext ==
    UpdateUsingTrajectories
        /\ UNCHANGED <<policy_vars, sampler_vars, objective_vars, reward_vars, cache_vars, heap_vars>>

RewardNext ==
    \/ Construct /\ UNCHANGED <<policy_vars, sampler_vars, objective_vars, update_vars, cache_vars, heap_vars>>
    \/ ComputeRewardOutput /\ UNCHANGED <<policy_vars, sampler_vars, objective_vars, update_vars, cache_vars, heap_vars>>

PolicySpecInit == PolicyInit /\ SamplerIdle /\ ObjectiveIdle /\ RewardIdle /\ UpdateIdle /\ CacheIdle /\ HeapIdle

SamplerSpecInit == SamplerInit /\ PolicyIdle /\ ObjectiveIdle /\ RewardIdle /\ UpdateIdle /\ CacheIdle /\ HeapIdle

ObjectiveSpecInit == ObjectiveInit /\ PolicyIdle /\ SamplerIdle /\ RewardIdle /\ UpdateIdle /\ CacheIdle /\ HeapIdle

RewardSpecInit == RewardInit /\ PolicyIdle /\ SamplerIdle /\ ObjectiveIdle /\ UpdateIdle /\ CacheIdle /\ HeapIdle

UpdateSpecInit ==
    UpdateInit /\ PolicyIdle /\ SamplerIdle /\ ObjectiveIdle /\ RewardIdle /\ CacheIdle /\ HeapIdle

UpdateSpec == UpdateSpecInit /\ [][UpdateNext]_vars

CacheNext ==
    \/ SetItem /\ UNCHANGED <<policy_vars, sampler_vars, objective_vars, reward_vars, update_vars, heap_vars>>
    \/ GetItem /\ UNCHANGED <<policy_vars, sampler_vars, objective_vars, reward_vars, update_vars, heap_vars>>
    \/ Contains /\ UNCHANGED <<policy_vars, sampler_vars, objective_vars, reward_vars, update_vars, heap_vars>>
    \/ Pop /\ UNCHANGED <<policy_vars, sampler_vars, objective_vars, reward_vars, update_vars, heap_vars>>
    \/ Clear /\ UNCHANGED <<policy_vars, sampler_vars, objective_vars, reward_vars, update_vars, heap_vars>>

CacheSpecInit ==
    CacheInit /\ PolicyIdle /\ SamplerIdle /\ ObjectiveIdle /\ RewardIdle /\ UpdateIdle /\ HeapIdle

CacheSpec == CacheSpecInit /\ [][CacheNext]_vars

HeapNext ==
    Push /\ UNCHANGED <<policy_vars, sampler_vars, objective_vars, reward_vars, update_vars, cache_vars>>

HeapSpecInit ==
    HeapInit /\ PolicyIdle /\ SamplerIdle /\ ObjectiveIdle /\ RewardIdle /\ UpdateIdle /\ CacheIdle

HeapSpec == HeapSpecInit /\ [][HeapNext]_vars

PolicySpec == PolicySpecInit /\ [][PolicyNext]_vars

SamplerSpec == SamplerSpecInit /\ [][SamplerNext]_vars

\* The rollout is one sequential call: it keeps running until it returns.
SamplerFairSpec == SamplerSpecInit /\ [][SamplerNext]_vars /\ WF_vars(SamplerNext)

ObjectiveSpec == ObjectiveSpecInit /\ [][ObjectiveNext]_vars

RewardSpec == RewardSpecInit /\ [][RewardNext]_vars

Init ==
    \/ PolicySpecInit \/ SamplerSpecInit \/ ObjectiveSpecInit \/ RewardSpecInit
    \/ UpdateSpecInit \/ CacheSpecInit \/ HeapSpecInit

Next ==
    \/ PolicyNext \/ SamplerNext \/ ObjectiveNext \/ RewardNext \/ UpdateNext
    \/ CacheNext \/ HeapNext

Spec == Init /\ [][Next]_vars

----------------------------------------------------------------------------
(* Claims about the policy dispatch (PolicySpec).                          *)

AllRegistered == Unregistered(batch.action_spaces) = {}

\* Output i of the call is the one made from action_spaces[i] for states[i].
OutputIsOwn(i) ==
    IF pol_out.op = "sample_actions"
    THEN /\ pol_out.result.value[i].state = batch.states[i]
         /\ pol_out.result.value[i].idx \in 0..(batch.action_spaces[i].n - 1)
    ELSE pol_out.result.value[i] =
             LogProbEntry(batch.states[i],
                          get_idx_of_action(batch.action_spaces[i], pol_out.actions[i]))

\* C1: for any batch whose action spaces are all of registered types, each
\* of sample_actions and compute_action_log_probs returns one output per
\* input state, in batch order, output i being made from action_spaces[i]
\* for states[i].
C1_DispatchComplete ==
    (pol_out # None /\ AllRegistered) =>
        /\ pol_out.result.status = "ok"
        /\ Len(pol_out.result.value) = Len(batch.states)
        /\ \A i \in 1..Len(batch.states) : OutputIsOwn(i)

\* C2: when the batch holds an action space of an unregistered type the
\* call fails with an error.
C2_UnregisteredTypeFails ==
    (pol_out # None /\ ~AllRegistered) => pol_out.result.status # "ok"

----------------------------------------------------------------------------
(* Claims about the sampler (SamplerSpec, SamplerFairSpec).                *)

FrontierTerminal == all(get_terminal_mask(get_last_states_flat(trajectories)))

\* The frontier of the rollout after return: reversal turned it into the
\* first states.
RolloutFrontier ==
    IF env.is_reversed
    THEN get_source_states_flat(trajectories)
    ELSE get_last_states_flat(trajectories)

\* C3: the rollout loop is left exactly when every frontier state is
\* terminal, it is eventually left whatever actions are sampled, and on
\* return the last state of every trajectory (before reversal) is terminal.
C3_RolloutTerminates ==
    /\ [][(pc = "loop" /\ pc' # "loop") => FrontierTerminal]_vars
    /\ [][(pc = "loop" /\ FrontierTerminal) => pc' = "after_loop"]_vars
    /\ [](pc = "after_loop" => FrontierTerminal)
    /\ [](pc = "done" => all(get_terminal_mask(RolloutFrontier)))
    /\ <>(pc = "done")

C3_Witness ==
    /\ pc = "done"
    /\ \E i, j \in 1..Len(trajectories._states_list) :
          /\ Len(trajectories._states_list[i]) >= 3
          /\ Len(trajectories._states_list[j]) = 1

\* C4: after add_source_states and after each add_actions_states every
\* trajectory has one more state than it has actions, forward action spaces
\* and backward action spaces.
C4_LengthInvariant ==
    pc \in {"loop", "after_loop"} =>
        /\ Len(trajectories._actions_list) = Len(trajectories._states_list)
        /\ Len(trajectories._forward_action_spaces_list) = Len(trajectories._states_list)
        /\ Len(trajectories._backward_action_spaces_list) = Len(trajectories._states_list)
        /\ \A i \in 1..Len(trajectories._states_list) :
              /\ Len(trajectories._states_list[i]) = Len(trajectories._actions_list[i]) + 1
              /\ Len(trajectories._states_list[i]) =
                     Len(trajectories._forward_action_spaces_list[i]) + 1
              /\ Len(trajectories._states_list[i]) =
                     Len(trajectories._backward_action_spaces_list[i]) + 1

C4_Witness ==
    /\ pc = "loop"
    /\ \E i, j \in 1..Len(trajectories._states_list) :
          /\ Len(trajectories._actions_list[i]) = 2
          /\ Len(trajectories._actions_list[j]) = 1

\* C9: on return the reward backend has been called once, with the last
\* states of the trajectories as returned (already reversed when the
\* environment is reversed), the reward output holds one entry per
\* trajectory, in order, for that trajectory's last state; with no Reward
\* configured nothing is attached and the backend is never called.
C9_RewardAfterReversal ==
    pc = "done" =>
        IF sampler_reward = None
        THEN trajectories._reward_outputs = None /\ proxy_calls = <<>>
        ELSE /\ proxy_calls = <<get_last_states_flat(trajectories)>>
             /\ Len(trajectories._reward_outputs.log_reward) = Len(trajectories._states_list)
             /\ Len(trajectories._reward_outputs.reward) = Len(trajectories._states_list)
             /\ \A i \in 1..Len(trajectories._states_list) :
                   LET own == compute_reward_output(
                                  sampler_reward, <<Last(trajectories._states_list[i])>>)
                   IN /\ trajectories._reward_outputs.log_reward[i] = own.log_reward[1]
                      /\ trajectories._reward_outputs.reward[i] = own.reward[1]
                      /\ trajectories._reward_outputs.proxy[i] = own.proxy[1]

C9_Witness ==
    /\ pc = "done"
    /\ env.is_reversed
    /\ sampler_reward # None
    /\ Len(trajectories._states_list) = 2
    /\ Len(trajectories._states_list[1]) >= 2
    /\ Len(trajectories._states_list[2]) = 1

----------------------------------------------------------------------------
(* Claims about the reward's construction (RewardSpec).                    *)

LinearOnSignedProxy ==
    reward_args.reward_boosting = "linear" /\ ~reward_args.proxy.is_non_negative

\* C10: construction with linear boosting and a proxy that is not
\* non-negative raises ValueError, and no reward is computed; every other
\* combination of a valid boosting mode and a proxy constructs a Reward.
C10_LinearNeedsNonNegative ==
    reward_obj # None =>
        /\ LinearOnSignedProxy => (reward_obj.k = "ValueError" /\ reward_out = None)
        /\ (reward_args.reward_boosting \in {"linear", "exponential"}
              /\ ~LinearOnSignedProxy) => reward_obj.k = "Reward"

C10_Witness == reward_obj # None /\ reward_obj.k = "ValueError"

----------------------------------------------------------------------------
(* Claims about the objective (ObjectiveSpec).  They are read off the      *)
(* batch as the call left it and the output it returned.                   *)

Scored == obj_in.trajectories

NTrajectories == Len(Scored._states_list)

\* The flat positions of trajectory t (counted from 0), in flat order.
PositionsOf(index, t) ==
    SelectSeq(Range0(Len(index)), LAMBDA a : At(index, a) = t)

\* The entries of a flat tensor that the index gives to trajectory t.
Regroup(flat, index, t) == Gather(flat, PositionsOf(index, t))

\* forward_log_prob[a] - backward_log_prob[a] for every flat action a.
FlatTerms ==
    Minus(Scored._forward_log_probs_flat.v, Scored._backward_log_probs_flat.v)

SourceLogFlow ==
    compute_states_log_flow(obj_in.self.forward_policy, get_source_states_flat(Scored))

\* delta_t as the claim writes it, t counted from 0.
Delta(t) ==
    Add(Sub(At(SourceLogFlow, t), At(Scored._reward_outputs.log_reward, t)),
        SumSeq(Regroup(FlatTerms, get_index_flat(Scored), t)))

\* C5: the returned loss is the mean over the trajectories t of delta_t^2,
\* delta_t = source_log_flow[t] - log_reward[t] + the sum over the actions
\* of trajectory t of (forward_log_prob - backward_log_prob); a trajectory
\* with no actions contributes source_log_flow[t] - log_reward[t].
C5_LossIsMeanSquaredDelta ==
    obj_out # None =>
        /\ obj_out.loss = mean([i \in 1..NTrajectories |-> Pow2(Delta(i - 1))])
        /\ \A i \in 1..NTrajectories :
              Len(Scored._actions_list[i]) = 0 =>
                  Delta(i - 1) = Sub(SourceLogFlow[i], Scored._reward_outputs.log_reward[i])

C5_Witness ==
    /\ obj_out # None
    /\ NTrajectories = 2
    /\ Len(Scored._actions_list[1]) = 0
    /\ Len(Scored._actions_list[2]) >= 2
    /\ obj_out.loss.sum.k = "fin" /\ obj_out.loss.sum.v > 0

\* Equality of two floating-point values: NaN equals nothing.
FloatEq(a, b) == a.k # "nan" /\ b.k # "nan" /\ a = b

\* log_reward[t] = source_log_flow[t] + sum over its actions of (f - b).
Balanced(t) ==
    FloatEq(At(Scored._reward_outputs.log_reward, t),
            Add(At(SourceLogFlow, t),
                SumSeq(Regroup(FlatTerms, get_index_flat(Scored), t))))

AllBalanced == \A t \in 0..(NTrajectories - 1) : Balanced(t)

AllFinite ==
    /\ \A i \in 1..NTrajectories :
          SourceLogFlow[i].k = "fin" /\ Scored._reward_outputs.log_reward[i].k = "fin"
    /\ \A a \in 1..Len(FlatTerms) :
          /\ Scored._forward_log_probs_flat.v[a].k = "fin"
          /\ Scored._backward_log_probs_flat.v[a].k = "fin"

LossIsZero == obj_out.loss.sum = Fin(0)

\* C6 as stated: the loss is 0 if every trajectory is balanced, and only
\* then.
C6_ZeroIffBalanced == obj_out # None => (AllBalanced <=> LossIsZero)

\* C6, amended: when every log-reward, log-flow and log-probability of the
\* batch is finite, the loss is 0 if every trajectory is balanced; whatever
\* the values, the loss is 0 only if every trajectory is balanced.
C6_ZeroIffBalancedWhenFinite ==
    obj_out # None =>
        /\ (AllFinite /\ AllBalanced) => LossIsZero
        /\ LossIsZero => AllBalanced

C6_Witness ==
    /\ obj_out # None
    /\ AllFinite /\ AllBalanced /\ LossIsZero
    /\ NTrajectories = 2
    /\ \E i \in 1..NTrajectories : Len(Scored._actions_list[i]) >= 2

\* The batch that holds trajectory i of t alone, as the sampler returns it.
Single(t, i) ==
    [_states_list |-> <<t._states_list[i]>>,
     _forward_action_spaces_list |-> <<t._forward_action_spaces_list[i]>>,
     _backward_action_spaces_list |-> <<t._backward_action_spaces_list[i]>>,
     _actions_list |-> <<t._actions_list[i]>>,
     _forward_log_probs_flat |-> None,
     _backward_log_probs_flat |-> None,
     _reward_outputs |-> [log_reward |-> <<t._reward_outputs.log_reward[i]>>,
                          reward |-> <<t._reward_outputs.reward[i]>>,
                          proxy |-> <<t._reward_outputs.proxy[i]>>]]

AloneResidual(i) ==
    trajectory_residuals(obj_in.self,
                         assign_log_probs(obj_in.self, Single(Scored, i)))[1]

AloneLoss(i) == compute_objective_output(obj_in.self, Single(Scored, i)).output.loss

\* C7: the residual of each trajectory of the batch is the residual computed
\* when that trajectory is the only one of the batch, and the batch loss is
\* the mean of the single-trajectory losses.
C7_ResidualIndependent ==
    obj_out # None =>
        /\ \A i \in 1..NTrajectories :
              trajectory_residuals(obj_in.self, Scored)[i] = AloneResidual(i)
        /\ obj_out.loss = mean([i \in 1..NTrajectories |-> AloneLoss(i).sum])

C7_Witness ==
    /\ obj_out # None
    /\ NTrajectories = 2
    /\ Len(Scored._actions_list[1]) >= 2
    /\ Len(Scored._actions_list[2]) >= 1
    /\ Len(Scored._actions_list[1]) # Len(Scored._actions_list[2])
    /\ AloneResidual(1) # AloneResidual(2)

\* C8: the index built from the per-trajectory action counts is
\* non-decreasing, holds t as many times as trajectory t has actions, holds
\* only values in [0, n_trajectories), regrouping the flat actions by it
\* gives back each trajectory's actions in their order, and the scatter-add
\* of the objective adds to slot t the terms of trajectory t and no other.
C8_FlattenRoundTrip ==
    obj_in # None =>
        LET index == get_index_flat(Scored)
            flat == get_actions_flat(Scored)
        IN /\ Len(index) = Len(flat)
           /\ \A a, b \in 1..Len(index) : a <= b => index[a] <= index[b]
           /\ \A a \in 1..Len(index) : index[a] \in 0..(NTrajectories - 1)
           /\ \A t \in 0..(NTrajectories - 1) :
                 /\ Len(PositionsOf(index, t)) = Len(At(Scored._actions_list, t))
                 /\ Regroup(flat, index, t) = At(Scored._actions_list, t)
           /\ obj_out # None =>
                 \A t \in 0..(NTrajectories - 1) :
                    At(scatter_add([i \in 1..NTrajectories |-> Fin(0)], index, FlatTerms), t)
                        = SumSeq(Regroup(FlatTerms, index, t))

C8_Witness ==
    /\ obj_out # None
    /\ NTrajectories = 2
    /\ Len(Scored._actions_list[1]) = 0
    /\ Len(Scored._actions_list[2]) = MaxDepth

----------------------------------------------------------------------------
(* Claims about the reward's scoring (RewardSpec).                         *)

\* Linear boosting on a proxy whose lower values are the better ones.
LinearOnLowerIsBetter ==
    reward_args.reward_boosting = "linear" /\ ~reward_args.proxy.higher_is_better

\* C11: with linear boosting and a proxy whose higher_is_better is false,
\* construction or the first compute_reward_output call fails: no output
\* is returned in which a state of positive proxy value has the reward
\* min_reward.
C11_IncompatiblePolarityIsFatal ==
    (reward_out # None /\ LinearOnLowerIsBetter) =>
        \A i \in 1..Len(reward_out.states) :
            ~(/\ Less(Fin(0), reward_out.output.proxy[i])
              /\ reward_out.output.reward[i] = Fin(reward_args.min_reward))

----------------------------------------------------------------------------
(* Claims about the proxy update (UpdateSpec).                             *)

----------------------------------------------------------------------------
(* Claims about what the objective does to its batch (ObjectiveSpec).      *)

\* C13 as stated: compute_objective_output leaves the trajectories container
\* (states, actions, action spaces, log-probabilities, reward output) as it
\* was handed in.
C13_BatchUnchanged == obj_out # None => obj_in.trajectories = obj_in.given

\* C13, amended: compute_objective_output leaves the states, the actions,
\* the action spaces and the reward output of the batch as they were handed
\* in, and assigns the batch its forward and backward log-probabilities, one
\* per action.
C13_BatchUnchangedButLogProbs ==
    obj_out # None =>
        /\ [obj_in.trajectories EXCEPT !._forward_log_probs_flat = None,
                                       !._backward_log_probs_flat = None]
               = [obj_in.given EXCEPT !._forward_log_probs_flat = None,
                                      !._backward_log_probs_flat = None]
        /\ obj_in.trajectories._forward_log_probs_flat.k = "tensor"
        /\ obj_in.trajectories._backward_log_probs_flat.k = "tensor"
        /\ Len(obj_in.trajectories._forward_log_probs_flat.v)
               = Len(get_actions_flat(obj_in.given))
        /\ Len(obj_in.trajectories._backward_log_probs_flat.v)
               = Len(get_actions_flat(obj_in.given))

C13_Witness ==
    /\ obj_out # None
    /\ Len(obj_in.given._states_list) = 2
    /\ Len(get_actions_flat(obj_in.given)) >= 3
    /\ obj_in.given._forward_log_probs_flat = None
    /\ obj_in.trajectories._forward_log_probs_flat # None

Residuals == trajectory_residuals(obj_in.self, Scored)

\* Trajectory t (counted from 0) has a log-reward of -infinity and a finite
\* source log-flow and finite log-probabilities.
OnlyLogRewardInfinite(t) ==
    /\ At(Scored._reward_outputs.log_reward, t) = NegInf
    /\ At(SourceLogFlow, t).k = "fin"
    /\ LET positions == PositionsOf(get_index_flat(Scored), t)
       IN \A j \in 1..Len(positions) :
             /\ At(Scored._forward_log_probs_flat.v, positions[j]).k = "fin"
             /\ At(Scored._backward_log_probs_flat.v, positions[j]).k = "fin"

\* C14 as stated: a trajectory whose log_reward is -infinity and whose other
\* terms are finite has the residual +infinity, and the returned loss is
\* +infinity.
C14_InfiniteLogRewardInfiniteLoss ==
    obj_out # None =>
        \A t \in 0..(NTrajectories - 1) :
            OnlyLogRewardInfinite(t) =>
                At(Residuals, t) = PosInf /\ obj_out.loss.sum = PosInf

\* C14, amended: such a trajectory has the residual +infinity, and the
\* returned loss is +infinity unless another trajectory of the batch has a
\* NaN residual, in which case the loss is NaN; it is never finite.
C14_InfiniteLogRewardNeverFiniteLoss ==
    obj_out # None =>
        \A t \in 0..(NTrajectories - 1) :
            OnlyLogRewardInfinite(t) =>
                /\ At(Residuals, t) = PosInf
                /\ obj_out.loss.sum =
                       IF \E u \in 0..(NTrajectories - 1) : At(Residuals, u) = NaN
                       THEN NaN ELSE PosInf

C14_Witness ==
    /\ obj_out # None
    /\ NTrajectories = 2
    /\ OnlyLogRewardInfinite(0) /\ Len(Scored._actions_list[1]) >= 2
    /\ At(Residuals, 1) = Fin(0)
    /\ obj_out.loss.sum = PosInf


----------------------------------------------------------------------------
(* Claims about the Cache (CacheSpec).                                     *)

\* The last call was a __setitem__ that evicted.
Evicted ==
    cache_call # None /\ cache_call.op = "__setitem__" /\ cache_call.removed # {}

DistinctInserted == Cardinality(SeqToSet(cache_inserted))

\* C15: a Cache of maximum size M never holds more than 1.05 * M entries,
\* whatever __setitem__, pop and clear calls were made; a __setitem__ that
\* evicts leaves at most M entries; and once more than 1.05 * M distinct
\* keys have been inserted (and none popped or cleared) an eviction has run.
C15_CacheBounded ==
    cache # None =>
        LET M == cache.max_size.v
        IN /\ 100 * Cache__len__(cache) <= 105 * M
           /\ Evicted => Cache__len__(cache) <= M
           /\ (cache_removals = 0 /\ 100 * DistinctInserted > 105 * M)
                  => Cache__len__(cache) < DistinctInserted

C15_Witness ==
    /\ cache # None /\ cache.max_size = Fin(MaxCacheSize)
    /\ Evicted /\ Cardinality(cache_call.removed) >= 2
    /\ 100 * DistinctInserted >= 105 * MaxCacheSize
    /\ Cache__len__(cache) = MaxCacheSize


\* The position of the earliest insertion of key among all insertions.
FirstInserted(key) ==
    CHOOSE i \in 1..Len(cache_inserted) :
        cache_inserted[i] = key /\ \A j \in 1..(i - 1) : cache_inserted[j] # key

\* A read leaves the dict's keys and their order as they were.
ReadsKeepOrder ==
    (cache_call # None /\ cache_call.op \in {"__getitem__", "__contains__"})
        => dict_keys(cache._cache) = cache_call.keys_before

\* C19 as stated: an eviction removes exactly the (len - M) keys whose first
\* insertion is the earliest among the keys present, the keys that remain
\* are the M most recently first-inserted ones, and reads change nothing.
C19_EvictsEarliestFirstInserted ==
    /\ ReadsKeepOrder
    /\ Evicted =>
         LET present == SeqToSet(cache_call.present)
             kept == SeqToSet(dict_keys(cache._cache))
         IN /\ Cardinality(cache_call.removed) = Cardinality(present) - cache.max_size.v
            /\ Cardinality(kept) = cache.max_size.v
            /\ \A old \in cache_call.removed, new \in kept :
                   FirstInserted(old) < FirstInserted(new)

\* C19, amended: an eviction removes exactly the (len - M) keys whose
\* current entries are the oldest, where a key that was removed and inserted
\* again counts from its latest insertion; the keys that remain are the M
\* keys with the newest entries, in the same order; reads change nothing.
C19_EvictsOldestEntries ==
    /\ ReadsKeepOrder
    /\ Evicted =>
         LET len == Len(cache_call.present)
             oversize == len - cache.max_size.v
         IN /\ cache_call.removed = SeqToSet(SubSeq(cache_call.present, 1, oversize))
            /\ dict_keys(cache._cache) = SubSeq(cache_call.present, oversize + 1, len)
            /\ Cache__len__(cache) = cache.max_size.v

C19_Witness ==
    /\ Evicted /\ cache.max_size = Fin(MaxCacheSize)
    /\ Cardinality(cache_call.removed) >= 2
    /\ Reinserts >= 1
    /\ \E key \in PresentKeys : FirstInserted(key) = 1


\* C16: with linear boosting exp(log_reward) == reward for every entry, and
\* with exponential boosting log(reward) == log_reward for every entry whose
\* log_reward is not -infinity, whatever proxy, beta and min_reward the
\* Reward was constructed with.
C16_BoostingConsistent ==
    reward_out # None =>
        \A i \in 1..Len(reward_out.states) :
            IF reward_obj.reward_boosting = "linear"
            THEN FloatEq(exp(reward_out.output.log_reward[i]), reward_out.output.reward[i])
            ELSE reward_out.output.log_reward[i] # NegInf
                    => FloatEq(log(reward_out.output.reward[i]), reward_out.output.log_reward[i])

\* The same for the rewards constructed with a min_reward that is not
\* negative.
C16_BoostingConsistentFromZero ==
    (reward_out # None /\ reward_args.min_reward >= 0) => C16_BoostingConsistent


\* r is the larger of x and m.
IsMaxOf(r, x, m) == r \in {x, m} /\ ~Less(r, x) /\ ~Less(r, m)

\* C18: the proxy field of the output is the backend's value, unflipped;
\* with signed_value = value if higher_is_better and -value otherwise,
\* linear boosting gives reward = max(beta * signed_value, min_reward), so
\* no reward is below min_reward, and exponential boosting gives
\* log_reward = max(beta * signed_value, min_log_reward), min_log_reward
\* being log(min_reward) if min_reward > 0 and -infinity otherwise.
C18_ClampedBoosting ==
    reward_out # None =>
        \A i \in 1..Len(reward_out.states) :
            LET value == compute_proxy_output(reward_args.proxy, reward_out.states)[i]
                signed_value == IF reward_args.proxy.higher_is_better THEN value ELSE Neg(value)
                boosted == Scale(signed_value, reward_args.beta)
                min_log_reward == IF reward_args.min_reward > 0
                                  THEN log(Fin(reward_args.min_reward)) ELSE NegInf
            IN /\ reward_out.output.proxy[i] = value
               /\ reward_args.reward_boosting = "linear" =>
                    /\ IsMaxOf(reward_out.output.reward[i], boosted, Fin(reward_args.min_reward))
                    /\ ~Less(reward_out.output.reward[i], Fin(reward_args.min_reward))
               /\ reward_args.reward_boosting = "exponential" =>
                    IsMaxOf(reward_out.output.log_reward[i], boosted, min_log_reward)

\* An exponential reward on a lower-is-better proxy, with one entry at the
\* floor log(min_reward) and one above it.
C18_Witness ==
    /\ reward_out # None
    /\ reward_args.reward_boosting = "exponential"
    /\ ~reward_args.proxy.higher_is_better
    /\ reward_args.min_reward > 0
    /\ \E i, j \in 1..Len(reward_out.states) :
          /\ reward_out.output.log_reward[i] = log(Fin(reward_args.min_reward))
          /\ reward_out.output.proxy[i].v > 0
          /\ reward_out.output.log_reward[j].k = "fin"
          /\ reward_out.output.log_reward[j] = Neg(reward_out.output.proxy[j])
          /\ reward_out.output.proxy[j].v < 0


----------------------------------------------------------------------------
(* Claims about the rollout's appends (SamplerSpec).                       *)

\* Trajectory i is left as it was by the step.
TrajectoryKept(i) ==
    /\ trajectories'._states_list[i] = trajectories._states_list[i]
    /\ trajectories'._actions_list[i] = trajectories._actions_list[i]
    /\ trajectories'._forward_action_spaces_list[i] = trajectories._forward_action_spaces_list[i]
    /\ trajectories'._backward_action_spaces_list[i] = trajectories._backward_action_spaces_list[i]

\* Trajectory i grows by one action sampled for its own frontier state, the
\* state that action leads to and the action spaces of the two states.
TrajectoryGrown(i) ==
    LET frontier == Last(trajectories._states_list[i])
        new_action == Last(trajectories'._actions_list[i])
        new_state == apply_forward_actions(<<frontier>>, <<new_action>>)[1]
    IN /\ trajectories'._actions_list[i] = Append(trajectories._actions_list[i], new_action)
       /\ new_action.state = frontier
       /\ trajectories'._states_list[i] = Append(trajectories._states_list[i], new_state)
       /\ trajectories'._forward_action_spaces_list[i] =
              Append(trajectories._forward_action_spaces_list[i],
                     get_forward_action_spaces(<<frontier>>)[1])
       /\ trajectories'._backward_action_spaces_list[i] =
              Append(trajectories._backward_action_spaces_list[i],
                     get_backward_action_spaces(<<new_state>>)[1])

\* C17: an iteration of the rollout loop leaves every trajectory whose
\* frontier state is terminal exactly as it was, in that iteration and so
\* in every later one, and appends to every other trajectory the action
\* sampled for its own frontier state, the resulting state and their action
\* spaces: the k-th sampled action goes to the k-th non-terminal trajectory.
C17_AppendsOnlyToActive ==
    [][(pc = "loop" /\ pc' = "loop") =>
          /\ Len(trajectories'._states_list) = Len(trajectories._states_list)
          /\ \A i \in 1..Len(trajectories._states_list) :
                IF get_terminal_mask(get_last_states_flat(trajectories))[i]
                THEN TrajectoryKept(i)
                ELSE TrajectoryGrown(i)]_vars

\* Two trajectories from different sources that were both extended in one
\* iteration, after which the second stayed as it was while the first grew.
C17_Witness ==
    /\ pc = "loop"
    /\ Len(trajectories._states_list) = 2
    /\ Len(trajectories._states_list[1]) = 3
    /\ Len(trajectories._states_list[2]) = 2
    /\ trajectories._states_list[1][1] # trajectories._states_list[2][1]
    /\ get_terminal_mask(get_last_states_flat(trajectories))[2]


----------------------------------------------------------------------------
(* Claims about the partition of the batch into phases (PolicySpec).       *)

\* The positions of the batch whose action space is of the given type, in
\* batch order.
PositionsOfType(action_space_type) ==
    SelectSeq([i \in 1..Len(batch.states) |-> i],
              LAMBDA i : isinstance(batch.action_spaces[i], action_space_type))

\* The number of places, over all phases, at which states[i] was handed on.
TimesHanded(i) ==
    Cardinality({<<c, r>> \in (1..Len(pol_out.calls)) \X (1..MaxBatch) :
                    /\ r <= Len(pol_out.calls[c].states)
                    /\ pol_out.calls[c].states[r] = batch.states[i]})

AbsentTypes ==
    {k \in 1..Len(action_space_to_forward_fn) :
        \A i \in 1..Len(batch.action_spaces) :
            ~isinstance(batch.action_spaces[i], action_space_to_forward_fn[k])}

\* The phases of absent types were skipped: no scoring call was made for
\* them and no call was made with an empty partition.
AbsentSkipped ==
    /\ \A c \in 1..Len(pol_out.calls) :
          /\ Len(pol_out.calls[c].states) > 0
          /\ \A k \in AbsentTypes : pol_out.calls[c].type # action_space_to_forward_fn[k]
    /\ Len(pol_out.calls) = Len(action_space_to_forward_fn) - Cardinality(AbsentTypes)

\* C21: in a call on a batch of registered types, a registered type with no
\* entry in the batch is skipped (its scoring function is not called, it
\* adds nothing to the lists that are concatenated) and the call completes
\* without error.
C21_EmptyPhaseSkipped ==
    (pol_out # None /\ AllRegistered /\ AbsentTypes # {}) =>
        AbsentSkipped /\ pol_out.result.status = "ok"

\* The same for the batches that hold at least one entry.
C21_EmptyPhaseSkippedInNonEmptyBatch ==
    (pol_out # None /\ Len(batch.states) > 0) => C21_EmptyPhaseSkipped


\* C22: for row r of a phase (counted from 0) _select_actions_log_probs
\* returns the entry log_probs[r][get_idx_of_action(actions[r])] of the
\* dense matrix, and the flat index r * max_actions + action_index it
\* gathers lies inside row r when the action index is below max_actions.
C22_SelectsOwnRowEntry ==
    (pol_out # None /\ pol_out.op = "compute_action_log_probs") =>
        \A c \in 1..Len(pol_out.calls) :
            LET call == pol_out.calls[c]
                log_probs == forward_fn(call.states, call.action_spaces)
                max_actions == Len(log_probs[1])
            IN /\ Len(call.selected) = Len(call.states)
               /\ \A r \in 0..(Len(call.states) - 1) :
                     LET action_index == get_idx_of_action(At(call.action_spaces, r),
                                                           At(call.actions, r))
                         flat == r * max_actions + action_index
                     IN /\ At(call.selected, r) = At(At(log_probs, r), action_index)
                        /\ action_index < max_actions =>
                              (flat >= r * max_actions /\ flat < (r + 1) * max_actions)

\* A phase of two rows with different numbers of actions, the second row
\* scoring its second action.
C22_Witness ==
    /\ pol_out # None /\ pol_out.op = "compute_action_log_probs"
    /\ pol_out.result.status = "ok"
    /\ \E c \in 1..Len(pol_out.calls) :
          /\ Len(pol_out.calls[c].states) = 2
          /\ pol_out.calls[c].action_spaces[1].n = 1
          /\ pol_out.calls[c].action_spaces[2].n = 2
          /\ pol_out.calls[c].actions[2].idx = 1


----------------------------------------------------------------------------
(* Claims about the alignment of the flat lists (ObjectiveSpec).           *)

\* The place, counted from 1, of the k-th action of trajectory i in a flat
\* list: behind all actions of the trajectories before it.
FlatPlace(i, k) == Len(Concat(SubSeq(obj_in.given._actions_list, 1, i - 1))) + k

\* C24: the five flat lists have one entry per action and are aligned: at
\* the place of the k-th action of a trajectory stand that action, the
\* states s_k and s_(k+1) and the k-th forward and backward action spaces;
\* the forward log-probability stored there is the forward policy's score
\* of the action at s_k with the k-th forward action space, the backward
\* one the backward policy's score at s_(k+1) with the k-th backward one.
C24_FlatListsAligned ==
    obj_out # None =>
        LET t == obj_in.given
            n_actions == Len(Concat(t._actions_list))
        IN /\ Len(get_actions_flat(t)) = n_actions
           /\ Len(get_non_last_states_flat(t)) = n_actions
           /\ Len(get_non_source_states_flat(t)) = n_actions
           /\ Len(get_forward_action_spaces_flat(t)) = n_actions
           /\ Len(get_backward_action_spaces_flat(t)) = n_actions
           /\ Len(Scored._forward_log_probs_flat.v) = n_actions
           /\ Len(Scored._backward_log_probs_flat.v) = n_actions
           /\ \A i \in 1..Len(t._actions_list) : \A k \in 1..Len(t._actions_list[i]) :
                 LET p == FlatPlace(i, k)
                     action == t._actions_list[i][k]
                 IN /\ get_actions_flat(t)[p] = action
                    /\ get_non_last_states_flat(t)[p] = t._states_list[i][k]
                    /\ get_non_source_states_flat(t)[p] = t._states_list[i][k + 1]
                    /\ get_forward_action_spaces_flat(t)[p] = t._forward_action_spaces_list[i][k]
                    /\ get_backward_action_spaces_flat(t)[p] = t._backward_action_spaces_list[i][k]
                    /\ get_forward_action_spaces_flat(t)[p].state = t._states_list[i][k]
                    /\ get_backward_action_spaces_flat(t)[p].state = t._states_list[i][k + 1]
                    /\ Scored._forward_log_probs_flat.v[p] =
                           policy_compute_action_log_probs(
                               obj_in.self.forward_policy, <<t._states_list[i][k]>>,
                               <<t._forward_action_spaces_list[i][k]>>, <<action>>)[1]
                    /\ Scored._backward_log_probs_flat.v[p] =
                           policy_compute_action_log_probs(
                               obj_in.self.backward_policy, <<t._states_list[i][k + 1]>>,
                               <<t._backward_action_spaces_list[i][k]>>, <<action>>)[1]

\* Two trajectories with actions, the first with two of them, so that the
\* second trajectory's entries stand behind the first's.
C24_Witness ==
    /\ obj_out # None
    /\ Len(obj_in.given._actions_list) = 2
    /\ Len(obj_in.given._actions_list[1]) = 2
    /\ Len(obj_in.given._actions_list[2]) >= 1
    /\ obj_in.given._states_list[1] # obj_in.given._states_list[2]


----------------------------------------------------------------------------
(* Claims about the calls the rollout makes (SamplerSpec).                 *)

\* The frontier states that are not terminal, in trajectory order.
NonTerminalFrontier ==
    SelectSeq(get_last_states_flat(trajectories),
              LAMBDA state : ~get_terminal_mask(<<state>>)[1])

\* The trajectories that the step extends, each by one state.
Extended ==
    {i \in 1..Len(trajectories._states_list) :
        Len(trajectories'._states_list[i]) = Len(trajectories._states_list[i]) + 1}

OnlySources == \A i \in 1..Len(trajectories._states_list) : Len(trajectories._states_list[i]) = 1

\* C25: every iteration of the loop calls the environment and the policy
\* once, with the non-terminal frontier states, of which there is at least
\* one, and extends at least one trajectory, each by one state at most; the
\* policy is called nowhere else; when every source state is terminal the
\* policy is never called and each returned trajectory is its source state.
C25_CallsOnNonEmptyFrontier ==
    /\ [][(pc = "loop" /\ pc' = "loop") =>
             /\ NonTerminalFrontier # <<>>
             /\ policy_calls' = Append(policy_calls,
                                       [states |-> NonTerminalFrontier,
                                        action_spaces |-> get_forward_action_spaces(NonTerminalFrontier)])
             /\ Extended # {}
             /\ \A i \in 1..Len(trajectories._states_list) :
                   i \in Extended \/ trajectories'._states_list[i] = trajectories._states_list[i]]_vars
    /\ [][(pc # "loop" \/ pc' # "loop") => policy_calls' = policy_calls]_vars
    /\ []((pc \in {"loop", "after_loop"} /\ all(get_terminal_mask(get_source_states_flat(trajectories))))
             => (policy_calls = <<>> /\ OnlySources))
    /\ []((pc = "done" /\ policy_calls = <<>>) => OnlySources)

\* A rollout of two trajectories that called the policy with both frontier
\* states first and with the one still active afterwards.
C25_Witness ==
    /\ pc = "done"
    /\ Len(policy_calls) = 2
    /\ Len(policy_calls[1].states) = 2
    /\ Len(policy_calls[2].states) = 1


----------------------------------------------------------------------------
(* ContentHeap claims.                                                     *)

\* The items of the entries a heap list holds.
ItemsIn(heap) == {heap[j].item : j \in 1..Len(heap)}

\* The last push handed an item that the heap held at the time.
PushedHeldItem == heap_call # None /\ heap_call.item \in ItemsIn(heap_call.before.heap)

\* C26: after any sequence of pushes the heap holds at most max_size
\* entries, the items set is exactly the set of the items stored in the heap
\* and no item is stored twice; a push of an item the heap holds leaves the
\* heap and the items set as they were, whatever the value.
C26_ItemsTrackHeap ==
    heap_obj # None =>
        /\ Len(heap_obj.heap) <= heap_obj.max_size
        /\ heap_obj.items = ItemsIn(heap_obj.heap)
        /\ Cardinality(heap_obj.items) = Len(heap_obj.heap)
        /\ PushedHeldItem => heap_obj = heap_call.before

\* A full heap was handed an item it holds, with another value than the
\* stored one.
C26_Witness ==
    /\ PushedHeldItem
    /\ Len(heap_call.before.heap) = heap_call.before.max_size
    /\ heap_call.before.max_size >= 2
    /\ \E j \in 1..Len(heap_call.before.heap) :
          /\ heap_call.before.heap[j].item = heap_call.item
          /\ heap_call.before.heap[j].value # heap_call.value
    /\ heap_obj = heap_call.before

\* The least value a non-empty heap list holds.
MinValue(heap) == CHOOSE v \in {heap[j].value : j \in 1..Len(heap)} : \A j \in 1..Len(heap) : v <= heap[j].value

\* The last push handed an item no earlier push had handed.
PushedNewItem == heap_distinct # None /\ heap_call # None

\* The last push found the heap full and put its entry in.
PushedIntoFull ==
    /\ PushedNewItem
    /\ Len(heap_call.before.heap) = heap_call.before.max_size
    /\ heap_call.item \in heap_obj.items

\* C27: while the items pushed are pairwise distinct, the heap holds
\* min(max_size, pushes) of the pushed entries and no entry left out has a
\* larger value than one held; a new entry is kept exactly if the heap is not
\* full or its value exceeds the least value held, and then an entry of that
\* least value is the one that leaves.
C27_KeepsLargestValues ==
    heap_distinct # None =>
        /\ SeqToSet(heap_obj.heap) \subseteq heap_distinct.pushes
        /\ Len(heap_obj.heap) =
               IF Cardinality(heap_distinct.pushes) < heap_obj.max_size
               THEN Cardinality(heap_distinct.pushes) ELSE heap_obj.max_size
        /\ \A h \in SeqToSet(heap_obj.heap) :
               \A p \in heap_distinct.pushes \ SeqToSet(heap_obj.heap) : p.value <= h.value
        /\ PushedNewItem =>
               (heap_call.item \in heap_obj.items <=>
                    \/ Len(heap_call.before.heap) < heap_call.before.max_size
                    \/ /\ Len(heap_call.before.heap) > 0
                       /\ heap_call.value > MinValue(heap_call.before.heap))
        /\ PushedIntoFull =>
               \E t \in SeqToSet(heap_call.before.heap) :
                   /\ t.value = MinValue(heap_call.before.heap)
                   /\ SeqToSet(heap_obj.heap) =
                          (SeqToSet(heap_call.before.heap) \ {t})
                              \cup {ComparableTuple(heap_call.value, heap_call.item)}

\* A full heap of three entries with two values let its least entry go for
\* a larger one, after more distinct pushes than it has room for.
C27_Witness ==
    /\ PushedIntoFull
    /\ heap_obj.max_size = 3
    /\ Cardinality(heap_distinct.pushes) > 3
    /\ \E j \in 1..3 : heap_call.before.heap[j].value > MinValue(heap_call.before.heap)

====
